---- MODULE Spec2Model ----
(***************************************************************************)
(* Discovery-and-filtering pipeline of the CJ scraper backend:             *)
(*   src/backend/server.js   POST /api/scrape, /api/scrape/cancel,         *)
(*                           /api/scrape/cancel-all, isRelevantProduct,    *)
(*                           withRetry, analyzeProductImage                *)
(*   src/api/scrape.js       searchCJProducts (paginated fetcher)          *)
(*                                                                         *)
(* Node runs every handler on one thread: a step of the model is the code  *)
(* that runs between two awaits of a handler.  Strings are sequences of    *)
(* one-character strings.                                                  *)
(***************************************************************************)
EXTENDS Integers, Sequences, FiniteSets, TLC

(***************************************************************************)
(* Bounds of the model                                                     *)
(***************************************************************************)
NumJobs == 2
MaxTicks == 2
\* The source sets VISION_BATCH_SIZE = 50 and MAX_PRODUCTS_TO_PROCESS = 1000
\* (src/backend/server.js:442, 433); the model scales both so that several
\* groups and the cap occur on catalogs of a handful of items.
VISION_BATCH_SIZE == 2
MAX_PRODUCTS_TO_PROCESS == 3

(***************************************************************************)
(* Program constants                                                       *)
(***************************************************************************)
REQ_PAGE_SIZE == 200
API_MAX_PAGE_SIZE == 200
SCRAPE_TIMEOUT_MS == 600000
MAX_OFFSET == 6000
TickMs == 400000

Jobs == 1..NumJobs

(***************************************************************************)
(* Small arithmetic and sequence helpers                                   *)
(***************************************************************************)
Min(a, b) == IF a <= b THEN a ELSE b

\* Math.ceil(a / b) for a >= 0, b > 0
CeilDiv(a, b) == (a + b - 1) \div b

RECURSIVE SelectIdx(_, _, _)
\* the elements s[k], k in i..Len(s), for which keep[k] holds, in order
SelectIdx(s, keep, i) ==
  IF i > Len(s) THEN <<>>
  ELSE (IF keep[i] THEN <<s[i]>> ELSE <<>>) \o SelectIdx(s, keep, i + 1)

(***************************************************************************)
(* Strings                                                                 *)
(***************************************************************************)
UpperToLower ==
  [c \in {"A", "B", "C", "D", "E", "F", "G", "M", "O", "P", "Q", "S", "T", "Y"} |->
     CASE c = "A" -> "a" [] c = "B" -> "b" [] c = "C" -> "c"
       [] c = "D" -> "d" [] c = "E" -> "e" [] c = "F" -> "f"
       [] c = "G" -> "g" [] c = "M" -> "m" [] c = "O" -> "o"
       [] c = "P" -> "p" [] c = "Q" -> "q" [] c = "S" -> "s"
       [] c = "T" -> "t" [] c = "Y" -> "y"]

\* String.prototype.toLowerCase
toLowerCase(s) ==
  [i \in 1..Len(s) |-> IF s[i] \in DOMAIN UpperToLower THEN UpperToLower[s[i]] ELSE s[i]]

\* String.prototype.includes
includes(s, w) ==
  \E i \in 0..(Len(s) - Len(w)) : SubSeq(s, i + 1, i + Len(w)) = w

RECURSIVE SplitFrom(_, _, _)
\* String.prototype.split(' '): every space ends a piece, empty pieces kept
SplitFrom(s, i, cur) ==
  IF i > Len(s) THEN <<cur>>
  ELSE IF s[i] = " " THEN <<cur>> \o SplitFrom(s, i + 1, <<>>)
  ELSE SplitFrom(s, i + 1, Append(cur, s[i]))

split(s) == SplitFrom(s, 1, <<>>)

isRelevantProduct_any(productTitle, searchTerm) == TRUE

\* src/backend/server.js:92 - relaxed text filter
isRelevantProduct(productTitle, searchTerm) ==
  LET lowerTitle == toLowerCase(productTitle)
      lowerSearch == toLowerCase(searchTerm)
      searchWords == SelectSeq(split(lowerSearch), LAMBDA w : Len(w) > 2)
      matchingWords == SelectSeq(searchWords, LAMBDA w : includes(lowerTitle, w))
  IN Len(matchingWords) >= 1

(***************************************************************************)
(* Inputs: the catalog the upstream API serves to a job                    *)
(***************************************************************************)
Keyword == <<"c", "a", "t", " ", "b", "e", "d">>

\* A RawItem as mapped by searchCJProducts: image is TRUE when
\* product.productImage is a non-empty URL ('' otherwise).
ItemA == [id |-> 1, title |-> <<"C", "a", "t", " ", "B", "e", "d">>, image |-> TRUE]
ItemB == [id |-> 2, title |-> <<"c", "a", "t", " ", "t", "o", "y">>, image |-> FALSE]
ItemC == [id |-> 3, title |-> <<"D", "o", "g", " ", "M", "a", "t">>, image |-> TRUE]
ItemD == [id |-> 4, title |-> <<"B", "E", "D">>, image |-> TRUE]
ItemE == [id |-> 5, title |-> <<"m", "y", " ", "c", "a", "t">>, image |-> TRUE]
ItemX == [id |-> 0, title |-> <<"x">>, image |-> TRUE]

BigTotal == 50000
BigPages == BigTotal \div API_MAX_PAGE_SIZE

CatalogNames == {"none", "one", "gap", "many"}

\* data.total reported by the upstream for a catalog (0: the response
\* carries no total)
CatalogTotal(c) ==
  CASE c = "none" -> 0
    [] c = "one"  -> 0
    [] c = "gap"  -> 401
    [] c = "many" -> 5
    [] c = "wide" -> 4
    [] c = "big"  -> BigTotal

\* data.list the upstream returns for page p of a catalog; a page never
\* holds more than the page size, and the pages together never hold more
\* than data.total items
CatalogPage(c, p) ==
  CASE c = "none" -> <<>>
    [] c = "one"  -> IF p = 1 THEN <<ItemC, ItemA>> ELSE <<>>
    [] c = "gap"  -> IF p = 1 THEN <<ItemA, ItemB>>
                     ELSE IF p = 3 THEN <<ItemD>> ELSE <<>>
    [] c = "many" -> IF p = 1 THEN <<ItemA, ItemB, ItemC, ItemD, ItemE>> ELSE <<>>
    [] c = "wide" -> IF p = 1 THEN <<ItemA, ItemD, ItemC, ItemE>> ELSE <<>>
    [] c = "big"  -> IF p <= BigPages
                     THEN [k \in 1..API_MAX_PAGE_SIZE |-> ItemX]
                     ELSE <<>>

\* Upstream offset ceiling: pages whose items lie within MAX_OFFSET are
\* served, every later page fails deterministically.
MaxFetchablePages(size) == MAX_OFFSET \div size

\* The possible outcomes of one GET /product/list for page p: a failure
\* (network error, non-200 code), or the page of the catalog.
UpstreamResponses(c, p, size) ==
  {[ok |-> FALSE, total |-> 0, list |-> <<>>]} \cup
  (IF p <= MaxFetchablePages(size)
   THEN {[ok |-> TRUE, total |-> CatalogTotal(c), list |-> CatalogPage(c, p)]}
   ELSE {})

(***************************************************************************)
(* State                                                                   *)
(***************************************************************************)
VARIABLES
  job,               \* job[j]: the locals of the j-th POST /api/scrape call
  activeScrapes,     \* server.js:29, scrapeId -> [cancelled, startedAt]
  cancelledScrapes,  \* ids handed to cancelScrape of ./cj-api-scraper
  now,               \* Date.now(), in ms since the server started
  config,            \* environment: CJ token, Vision credentials, Vision reachable
  retry,             \* the locals of one call of withRetry
  probe,             \* one call of a pure function: its arguments and result
  upload,            \* the locals of one POST /api/upload-shopify call
  activeUploads,     \* server.js:635, uploadId -> [cancelled, startedAt]
  browser,           \* the locals of one call of scrapeCJDropshipping
  category           \* category-service.js: the cache file and one call of
                     \* getCategoryIndex

vars == <<job, activeScrapes, cancelledScrapes, now, config, retry, probe,
          upload, activeUploads, browser, category>>

\* the upload handler before it is called; cancelAllSeen is history, not
\* read by the handler
IdleUpload ==
  [pc |-> "idle", products |-> <<>>, batchIndex |-> 0, results |-> <<>>,
   resp |-> [status |-> 0], cancelAllSeen |-> FALSE]

\* scrapeCJDropshipping before it is called; requested and nonEmpty are
\* history: the pageNum of every page.goto, and the number of pages that
\* returned a product
IdleBrowser ==
  [pc |-> "idle", currentPage |-> 0, hasMorePages |-> FALSE, totalPages |-> 0,
   allProducts |-> 0, requested |-> <<>>, nonEmpty |-> 0,
   resp |-> [success |-> FALSE, pagesScraped |-> 0, totalFound |-> 0]]

\* no cache file, and getCategoryIndex before it is called; calls,
\* apiCalls and readError are history
IdleCategory ==
  [pc |-> "idle", file |-> [exists |-> FALSE, mtimeMs |-> 0, content |-> "none"],
   result |-> "none",
   calls |-> 0, apiCalls |-> 0, readError |-> FALSE]

NoResp == [status |-> 0]

IdleJob ==
  [pc |-> "idle", catalog |-> "none", useImageDetection |-> TRUE,
   totalCount |-> 0, totalPages |-> 0, page |-> 0, products |-> <<>>,
   textFiltered |-> <<>>, imageFiltered |-> <<>>, i |-> 0,
   batchResults |-> <<>>, scrapeStartTime |-> 0, resp |-> NoResp,
   \* history, not read by the handlers
   requested |-> <<>>, pageLog |-> <<>>, inFlight |-> 0,
   groupsStarted |-> 0, processed |-> 0,
   cancelAllSeen |-> FALSE, timedOutInGroup |-> FALSE,
   \* history of the completion order, kept by the specifications that
   \* observe it: "unobserved", "no" or "yes"
   outOfOrder |-> "unobserved"]

Configs ==
  [hasToken : BOOLEAN, vision : {"nocreds", "up", "down"}]

\* activeScrapes.get(scrapeId)?.cancelled
isCancelled(as, id) == id \in DOMAIN as /\ as[id].cancelled

deleteSession_keep(as, id) == as

\* activeScrapes.delete(scrapeId)
deleteSession(as, id) == [k \in DOMAIN as \ {id} |-> as[k]]

\* generateScrapeId(): the j-th request gets an id no other request has
generateScrapeId(j) == j

(***************************************************************************)
(* Result assembly, server.js:517-535 and 559-564                          *)
(***************************************************************************)
Null == "null"

\* ((final / total) * 100).toFixed(1): a number in tenths of a percent, or
\* the NaN / Infinity a division by zero yields
passRate(final, total) ==
  IF total = 0
  THEN [kind |-> IF final = 0 THEN "NaN" ELSE "Infinity", tenths |-> 0]
  ELSE [kind |-> "number", tenths |-> (2000 * final + total) \div (2 * total)]

\* the fetchedPages field of searchCJProducts' result (fetchAllPages is true)
fetchedPages(jr) == jr.totalPages

results(jr, finalProducts) ==
  [status |-> 200,
   success |-> TRUE,
   totalFound |-> jr.totalCount,
   maxFetchable |-> Null,
   pagesScraped |-> IF fetchedPages(jr) = 0 THEN 1 ELSE fetchedPages(jr),
   textFiltered |-> Len(jr.textFiltered),
   imageFiltered |-> IF jr.useImageDetection THEN Len(finalProducts) ELSE Null,
   filtered |-> Len(finalProducts),
   passRate |-> passRate(Len(finalProducts), jr.totalCount),
   products |-> finalProducts,
   imageDetectionUsed |-> jr.useImageDetection]

\* res.json(results) at the end of the try block
Finish(jr, finalProducts) ==
  [jr EXCEPT !.pc = "done", !.resp = results(jr, finalProducts)]

\* the catch block: res.status(500).json({ error })
Fail(jr, message) ==
  [jr EXCEPT !.pc = "done", !.resp = [status |-> 500, error |-> message]]

(***************************************************************************)
(* Image stage, server.js:439-515                                          *)
(***************************************************************************)
VisionOutcomes(vision) ==
  IF vision = "down" THEN {"error"} ELSE {"match", "nomatch", "error"}

analyzeProductImage_failClosed(outcome) ==
  CASE outcome = "match"   -> TRUE
    [] outcome = "nomatch" -> FALSE
    [] outcome = "error"   -> FALSE

\* analyzeProductImage, from the outcome of its download-and-label call:
\* "error" is an exception that leaves withRetry
analyzeProductImage(outcome) ==
  CASE outcome = "match"   -> TRUE
    [] outcome = "nomatch" -> FALSE
    [] outcome = "error"   -> TRUE

\* batch.map(async (product) => ...) up to its first await: the result of
\* a product is known at once when it has no image, or when no credentials
\* are configured
startItem(product, vision) ==
  IF product.image
  THEN (IF vision = "nocreds" THEN "pass" ELSE "pending")
  ELSE "fail"

\* batchOf with every remaining item in one group
batchOf_all(jr) ==
  SubSeq(jr.textFiltered, jr.i + 1, Len(jr.textFiltered))

\* textFiltered.slice(i, i + VISION_BATCH_SIZE)
batchOf(jr) ==
  SubSeq(jr.textFiltered, jr.i + 1, Min(jr.i + VISION_BATCH_SIZE, Len(jr.textFiltered)))

\* afterBatch with the passers of a group put before those of earlier groups
afterBatch_prepend(jr) ==
  LET batch == batchOf(jr)
      collected == SelectIdx(batch, [k \in 1..Len(batch) |-> jr.batchResults[k] = "pass"], 1)
                   \o jr.imageFiltered
      jr2 == [jr EXCEPT !.imageFiltered = collected, !.batchResults = <<>>]
  IN IF jr.i + VISION_BATCH_SIZE < Len(jr.textFiltered)
     THEN [jr2 EXCEPT !.pc = "cooldown"]
     ELSE Finish(jr2, collected)

\* after Promise.all: collect the passers in input order, then pause before
\* the next group or leave the loop
afterBatch(jr) ==
  LET batch == batchOf(jr)
      collected == jr.imageFiltered \o
                   SelectIdx(batch, [k \in 1..Len(batch) |-> jr.batchResults[k] = "pass"], 1)
      jr2 == [jr EXCEPT !.imageFiltered = collected, !.batchResults = <<>>]
  IN IF jr.i + VISION_BATCH_SIZE < Len(jr.textFiltered)
     THEN [jr2 EXCEPT !.pc = "cooldown"]
     ELSE Finish(jr2, collected)

\* head of the for loop at index jr.i: the two checkpoints, then the group
loopTop(jr, as, id, t, vision) ==
  IF jr.i >= Len(jr.textFiltered) THEN Finish(jr, jr.imageFiltered)
  ELSE IF isCancelled(as, id) THEN Finish(jr, jr.imageFiltered)
  ELSE IF t - jr.scrapeStartTime > SCRAPE_TIMEOUT_MS THEN Finish(jr, jr.imageFiltered)
  ELSE
    LET batch == batchOf(jr)
        started == [jr EXCEPT
                      !.pc = "batch",
                      !.batchResults = [k \in 1..Len(batch) |-> startItem(batch[k], vision)],
                      !.groupsStarted = @ + 1,
                      !.processed = jr.i + Len(batch)]
    IN IF \E k \in 1..Len(batch) : started.batchResults[k] = "pending"
       THEN started
       ELSE afterBatch(started)

\* textFiltered.slice(0, MAX_PRODUCTS_TO_PROCESS)
capProducts(tf) ==
  IF Len(tf) > MAX_PRODUCTS_TO_PROCESS THEN SubSeq(tf, 1, MAX_PRODUCTS_TO_PROCESS) ELSE tf

\* the handler from the return of searchCJProducts (success) to its next await
afterFetch(jr, as, id, t, vision) ==
  IF isCancelled(as, id) THEN Fail(jr, "Scrape cancelled by user")
  ELSE
    LET tf == capProducts(SelectSeq(jr.products,
                                    LAMBDA p : isRelevantProduct(p.title, Keyword)))
        jr2 == [jr EXCEPT !.textFiltered = tf, !.scrapeStartTime = t,
                          !.i = 0, !.imageFiltered = <<>>]
    IN IF jr.useImageDetection /\ Len(tf) > 0
       THEN loopTop(jr2, as, id, t, vision)
       ELSE Finish(jr2, tf)

(***************************************************************************)
(* Paginated fetcher, src/api/scrape.js:324-457                            *)
(***************************************************************************)
\* pageSize: Math.min(pageSize, 200) in the query string
sentPageSize(pageSize) == Min(pageSize, API_MAX_PAGE_SIZE)

totalCountOf_noFallback(r) == r.total

\* const totalCount = data.total || productList.length
totalCountOf(r) == IF r.total # 0 THEN r.total ELSE Len(r.list)

\* const totalPages = Math.ceil(totalCount / pageSize)
totalPagesOf(totalCount, pageSize) == CeilDiv(totalCount, pageSize)

\* the request for page p leaves (axios.get)
requestPage(jr, p) ==
  [jr EXCEPT !.requested = Append(@, p), !.inFlight = @ + 1]

\* a response for page p arrived
logPage(jr, p, r) ==
  [jr EXCEPT !.pageLog = Append(@, [page |-> p, ok |-> r.ok, n |-> Len(r.list)]),
             !.inFlight = @ - 1]

\* the session map after a step of job id that left the job in state jr
sessionsAfter(as, id, jr) ==
  IF jr.pc = "done" THEN deleteSession(as, id) ELSE as

(***************************************************************************)
(* POST /api/scrape, server.js:368-565                                     *)
(***************************************************************************)
\* StartScrape with the session registered before the request is validated
StartScrape_registerFirst(j, hasTerm, img, cat) ==
  /\ job[j].pc = "idle"
  /\ LET id == generateScrapeId(j)
         as == [k \in DOMAIN activeScrapes \cup {id} |->
                  IF k = id THEN [cancelled |-> FALSE, startedAt |-> now]
                  ELSE activeScrapes[k]]
         jr == [job[j] EXCEPT !.useImageDetection = img, !.catalog = cat]
         next == IF ~hasTerm
                 THEN [job[j] EXCEPT !.pc = "done",
                         !.resp = [status |-> 400, error |-> "searchUrl or searchTerm required"]]
                 ELSE IF ~config.hasToken
                 THEN [job[j] EXCEPT !.pc = "done",
                         !.resp = [status |-> 500, error |-> "CJ_API_TOKEN required"]]
                 ELSE requestPage([jr EXCEPT !.pc = "page1", !.page = 1], 1)
     IN /\ job' = [job EXCEPT ![j] = next]
        /\ activeScrapes' = as
  /\ UNCHANGED <<cancelledScrapes, now, config, retry, probe, upload, activeUploads,
                 browser, category>>

\* From the request to the first await: validation, session registration,
\* the first cancellation check and the request for page 1.
StartScrape(j, hasTerm, img, cat) ==
  /\ job[j].pc = "idle"
  /\ IF ~hasTerm
     THEN /\ job' = [job EXCEPT ![j] = [@ EXCEPT !.pc = "done",
                       !.resp = [status |-> 400, error |-> "searchUrl or searchTerm required"]]]
          /\ UNCHANGED activeScrapes
     ELSE IF ~config.hasToken
     THEN /\ job' = [job EXCEPT ![j] = [@ EXCEPT !.pc = "done",
                       !.resp = [status |-> 500, error |-> "CJ_API_TOKEN required"]]]
          /\ UNCHANGED activeScrapes
     ELSE LET id == generateScrapeId(j)
              as == [k \in DOMAIN activeScrapes \cup {id} |->
                       IF k = id THEN [cancelled |-> FALSE, startedAt |-> now]
                       ELSE activeScrapes[k]]
              jr == [job[j] EXCEPT !.useImageDetection = img, !.catalog = cat]
              next == IF isCancelled(as, id)
                      THEN Fail(jr, "Scrape cancelled by user")
                      ELSE requestPage([jr EXCEPT !.pc = "page1", !.page = 1], 1)
          IN /\ job' = [job EXCEPT ![j] = next]
             /\ activeScrapes' = sessionsAfter(as, id, next)
  /\ UNCHANGED <<cancelledScrapes, now, config, retry, probe, upload, activeUploads,
                 browser, category>>

\* The response for page 1 arrives: searchCJProducts computes the totals,
\* and either starts the loop over pages 2..totalPages or returns.
FirstPage(j, r) ==
  /\ job[j].pc = "page1"
  /\ r \in UpstreamResponses(job[j].catalog, 1, sentPageSize(REQ_PAGE_SIZE))
  /\ LET id == generateScrapeId(j)
         logged == logPage(job[j], 1, r)
         tc == totalCountOf(r)
         tp == totalPagesOf(tc, REQ_PAGE_SIZE)
         got == [logged EXCEPT !.totalCount = tc, !.totalPages = tp, !.products = r.list]
         next == IF ~r.ok THEN Fail(logged, "CJ API request failed")
                 ELSE IF tp > 1 THEN [got EXCEPT !.pc = "pagewait", !.page = 2]
                 ELSE afterFetch(got, activeScrapes, id, now, config.vision)
     IN /\ job' = [job EXCEPT ![j] = next]
        /\ activeScrapes' = sessionsAfter(activeScrapes, id, next)
  /\ UNCHANGED <<cancelledScrapes, now, config, retry, probe, upload, activeUploads,
                 browser, category>>

\* The 1100 ms delay before page job[j].page is over: the request leaves.
PageDelay(j) ==
  /\ job[j].pc = "pagewait"
  /\ job' = [job EXCEPT ![j] = requestPage([@ EXCEPT !.pc = "pageN"], job[j].page)]
  /\ UNCHANGED <<activeScrapes, cancelledScrapes, now, config, retry, probe, upload, activeUploads,
                 browser, category>>

\* NextPage with the items of a new page put before the accumulated ones
NextPage_prepend(j, r) ==
  /\ job[j].pc = "pageN"
  /\ r \in UpstreamResponses(job[j].catalog, job[j].page, sentPageSize(REQ_PAGE_SIZE))
  /\ LET id == generateScrapeId(j)
         logged == logPage(job[j], job[j].page, r)
         got == IF r.ok THEN [logged EXCEPT !.products = r.list \o @] ELSE logged
         next == IF got.page + 1 <= got.totalPages
                 THEN [got EXCEPT !.pc = "pagewait", !.page = @ + 1]
                 ELSE afterFetch(got, activeScrapes, id, now, config.vision)
     IN /\ job' = [job EXCEPT ![j] = next]
        /\ activeScrapes' = sessionsAfter(activeScrapes, id, next)
  /\ UNCHANGED <<cancelledScrapes, now, config, retry, probe, upload, activeUploads,
                 browser, category>>

\* NextPage with a failed page requested again instead of skipped
NextPage_retryFailed(j, r) ==
  /\ job[j].pc = "pageN"
  /\ r \in UpstreamResponses(job[j].catalog, job[j].page, sentPageSize(REQ_PAGE_SIZE))
  /\ LET id == generateScrapeId(j)
         logged == logPage(job[j], job[j].page, r)
         got == IF r.ok THEN [logged EXCEPT !.products = @ \o r.list] ELSE logged
         next == IF ~r.ok THEN [got EXCEPT !.pc = "pagewait"]
                 ELSE IF got.page + 1 <= got.totalPages
                 THEN [got EXCEPT !.pc = "pagewait", !.page = @ + 1]
                 ELSE afterFetch(got, activeScrapes, id, now, config.vision)
     IN /\ job' = [job EXCEPT ![j] = next]
        /\ activeScrapes' = sessionsAfter(activeScrapes, id, next)
  /\ UNCHANGED <<cancelledScrapes, now, config, retry, probe, upload, activeUploads,
                 browser, category>>

\* The response for a page >= 2 arrives: its products are appended when it
\* succeeded, and the loop goes on to the next page or returns.
NextPage(j, r) ==
  /\ job[j].pc = "pageN"
  /\ r \in UpstreamResponses(job[j].catalog, job[j].page, sentPageSize(REQ_PAGE_SIZE))
  /\ LET id == generateScrapeId(j)
         logged == logPage(job[j], job[j].page, r)
         got == IF r.ok THEN [logged EXCEPT !.products = @ \o r.list] ELSE logged
         next == IF got.page + 1 <= got.totalPages
                 THEN [got EXCEPT !.pc = "pagewait", !.page = @ + 1]
                 ELSE afterFetch(got, activeScrapes, id, now, config.vision)
     IN /\ job' = [job EXCEPT ![j] = next]
        /\ activeScrapes' = sessionsAfter(activeScrapes, id, next)
  /\ UNCHANGED <<cancelledScrapes, now, config, retry, probe, upload, activeUploads,
                 browser, category>>

\* One classifier call of the group in flight settles; the last one to
\* settle resolves Promise.all.
ItemDone(j, k, outcome) ==
  /\ job[j].pc = "batch"
  /\ k \in DOMAIN job[j].batchResults
  /\ job[j].batchResults[k] = "pending"
  /\ outcome \in VisionOutcomes(config.vision)
  /\ LET id == generateScrapeId(j)
         passed == analyzeProductImage(outcome)
         got == [job[j] EXCEPT !.batchResults[k] = IF passed THEN "pass" ELSE "fail",
                               !.outOfOrder =
                                 IF @ = "no" /\ \E m \in 1..(k - 1) :
                                                  job[j].batchResults[m] = "pending"
                                 THEN "yes" ELSE @]
         next == IF \E m \in DOMAIN got.batchResults : got.batchResults[m] = "pending"
                 THEN got
                 ELSE afterBatch(got)
     IN /\ job' = [job EXCEPT ![j] = next]
        /\ activeScrapes' = sessionsAfter(activeScrapes, id, next)
  /\ UNCHANGED <<cancelledScrapes, now, config, retry, probe, upload, activeUploads,
                 browser, category>>

\* The 500 ms pause between two groups is over: i += VISION_BATCH_SIZE and
\* the loop head runs.
Cooldown(j) ==
  /\ job[j].pc = "cooldown"
  /\ LET id == generateScrapeId(j)
         next == loopTop([job[j] EXCEPT !.i = @ + VISION_BATCH_SIZE],
                         activeScrapes, id, now, config.vision)
     IN /\ job' = [job EXCEPT ![j] = next]
        /\ activeScrapes' = sessionsAfter(activeScrapes, id, next)
  /\ UNCHANGED <<cancelledScrapes, now, config, retry, probe, upload, activeUploads,
                 browser, category>>

(***************************************************************************)
(* Cancellation endpoints, server.js:567-596                               *)
(***************************************************************************)
\* The response of POST /api/scrape/cancel, server.js:571-582
cancelResponse(as, id) ==
  IF id = 0 THEN [status |-> 400, success |-> FALSE]
  ELSE IF id \in DOMAIN as THEN [status |-> 200, success |-> TRUE]
  ELSE [status |-> 200, success |-> FALSE]

\* Cancel that sets the flag of every session
Cancel_everySession(id) ==
  /\ id \in Jobs \cup {0}
  /\ IF id # 0 /\ id \in DOMAIN activeScrapes
     THEN /\ activeScrapes' = [k \in DOMAIN activeScrapes |->
                                [activeScrapes[k] EXCEPT !.cancelled = TRUE]]
          /\ cancelledScrapes' = cancelledScrapes \cup {id}
     ELSE UNCHANGED <<activeScrapes, cancelledScrapes>>
  /\ UNCHANGED <<job, now, config, retry, probe, upload, activeUploads, browser, category>>

\* Cancel that also ends a job whose image group is in flight, on the spot
Cancel_abort(id) ==
  /\ id \in Jobs \cup {0}
  /\ IF id # 0 /\ id \in DOMAIN activeScrapes
     THEN LET next == IF job[id].pc = "batch"
                      THEN Finish([job[id] EXCEPT !.batchResults = <<>>],
                                  job[id].imageFiltered)
                      ELSE job[id]
          IN /\ job' = [job EXCEPT ![id] = next]
             /\ activeScrapes' = sessionsAfter([activeScrapes EXCEPT ![id].cancelled = TRUE],
                                               id, next)
             /\ cancelledScrapes' = cancelledScrapes \cup {id}
     ELSE UNCHANGED <<job, activeScrapes, cancelledScrapes>>
  /\ UNCHANGED <<now, config, retry, probe, upload, activeUploads, browser, category>>

\* Cancel with the flag flipped instead of set
Cancel_toggle(id) ==
  /\ id \in Jobs \cup {0}
  /\ IF id # 0 /\ id \in DOMAIN activeScrapes
     THEN /\ activeScrapes' = [activeScrapes EXCEPT ![id].cancelled = ~@]
          /\ cancelledScrapes' = cancelledScrapes \cup {id}
     ELSE UNCHANGED <<activeScrapes, cancelledScrapes>>
  /\ UNCHANGED <<job, now, config, retry, probe, upload, activeUploads, browser, category>>

\* POST /api/scrape/cancel; id 0 is a body without scrapeId
Cancel(id) ==
  /\ id \in Jobs \cup {0}
  /\ IF id # 0 /\ id \in DOMAIN activeScrapes
     THEN /\ activeScrapes' = [activeScrapes EXCEPT ![id].cancelled = TRUE]
          /\ cancelledScrapes' = cancelledScrapes \cup {id}
     ELSE UNCHANGED <<activeScrapes, cancelledScrapes>>
  /\ UNCHANGED <<job, now, config, retry, probe, upload, activeUploads, browser, category>>

\* POST /api/scrape/cancel-all
CancelAll ==
  /\ cancelledScrapes' = cancelledScrapes \cup DOMAIN activeScrapes
  /\ job' = [j \in Jobs |->
               IF generateScrapeId(j) \in DOMAIN activeScrapes
               THEN [job[j] EXCEPT !.cancelAllSeen = TRUE] ELSE job[j]]
  /\ activeScrapes' = << >>
  /\ UNCHANGED <<now, config, retry, probe, upload, activeUploads, browser, category>>

\* Wall-clock time passes; the history notes a timeout that elapses while a
\* group is in flight.
Tick ==
  /\ now < MaxTicks * TickMs
  /\ now' = now + TickMs
  /\ job' = [j \in Jobs |->
               IF /\ job[j].pc = "batch"
                  /\ now - job[j].scrapeStartTime <= SCRAPE_TIMEOUT_MS
                  /\ now' - job[j].scrapeStartTime > SCRAPE_TIMEOUT_MS
               THEN [job[j] EXCEPT !.timedOutInGroup = TRUE] ELSE job[j]]
  /\ UNCHANGED <<activeScrapes, cancelledScrapes, config, retry, probe, upload, activeUploads,
                 browser, category>>

(***************************************************************************)
(* withRetry, server.js:127-152                                            *)
(***************************************************************************)
\* default arguments of withRetry(fn, maxRetries = 3, baseDelayMs = 1000)
DEFAULT_MAX_RETRIES == 3
DEFAULT_BASE_DELAY_MS == 1000

\* largest maxRetries a caller passes in the model, and a base delay other
\* than the default
MaxRetriesArg == 3
ShortBaseDelayMs == 250

\* The errors fn may throw: code, message and response.status as axios and
\* the runtime set them (status 0: no response; hasMessage FALSE: message is
\* undefined).
\* kind names what happened and is not read by withRetry.

Errors ==
  {[kind |-> "reset",     code |-> "ECONNRESET",       hasMessage |-> TRUE,  message |->
      <<"s", "o", "c", "k", "e", "t", " ", "h", "a", "n", "g", " ", "u", "p">>,
    status |-> 0],
   [kind |-> "timeout",   code |-> "ETIMEDOUT",        hasMessage |-> FALSE, message |-> <<>>,        status |-> 0],
   [kind |-> "timeout",   code |-> "ECONNABORTED",     hasMessage |-> TRUE,  message |->
      <<"t", "i", "m", "e", "o", "u", "t", " ", "o", "f", " ", "1", "5", "0", "0", "0", "m", "s", " ", "e", "x", "c", "e", "e", "d", "e", "d">>,
    status |-> 0],
   [kind |-> "refused",   code |-> "ECONNREFUSED",     hasMessage |-> FALSE, message |-> <<>>,        status |-> 0],
   [kind |-> "ratelimit", code |-> "ERR_BAD_REQUEST",  hasMessage |-> TRUE,  message |->
      <<"s", "t", "a", "t", "u", "s", " ", "c", "o", "d", "e", " ", "4", "2", "9">>,
    status |-> 429],
   [kind |-> "server",    code |-> "ERR_BAD_RESPONSE", hasMessage |-> TRUE,  message |->
      <<"s", "t", "a", "t", "u", "s", " ", "c", "o", "d", "e", " ", "5", "0", "3">>,
    status |-> 503],
   [kind |-> "client",    code |-> "ERR_BAD_REQUEST",  hasMessage |-> TRUE,  message |->
      <<"s", "t", "a", "t", "u", "s", " ", "c", "o", "d", "e", " ", "4", "0", "4">>,
    status |-> 404],
   [kind |-> "other",     code |-> Null,               hasMessage |-> TRUE,  message |->
      <<"l", "a", "b", "e", "l", "s", ".", "m", "a", "p", " ", "i", "s", " ", "n", "o", "t", " ", "a", " ", "f", "u", "n", "c", "t", "i", "o", "n">>,
    status |-> 0],
   [kind |-> "other",     code |-> Null,               hasMessage |-> FALSE, message |-> <<>>,        status |-> 0]}

\* error.message?.includes(w)
messageIncludes(error, w) ==
  error.hasMessage /\ includes(error.message, w)

isRetryable_always(error) == TRUE

\* server.js:133-138
isRetryable(error) ==
  \/ error.code = "ECONNRESET"
  \/ error.code = "ETIMEDOUT"
  \/ error.code = "ECONNREFUSED"
  \/ messageIncludes(error, <<"t", "i", "m", "e", "o", "u", "t">>)
  \/ messageIncludes(error, <<"4", "2", "9">>)
  \/ error.status >= 500

backoffDelay_fixed(baseDelayMs, attempt) == baseDelayMs

\* const delay = baseDelayMs * Math.pow(2, attempt - 1)
backoffDelay(baseDelayMs, attempt) == baseDelayMs * 2 ^ (attempt - 1)

IdleRetry ==
  [pc |-> "idle", maxRetries |-> 0, baseDelayMs |-> 0, attempt |-> 0,
   lastError |-> Null, outcome |-> Null,
   \* history, not read by withRetry
   log |-> <<>>, delays |-> <<>>]

\* withRetry(fn, maxRetries, baseDelayMs) is called: the loop starts and fn
\* is invoked for attempt 1
withRetry(maxRetries, baseDelayMs) ==
  /\ retry.pc = "idle"
  /\ retry' = [retry EXCEPT !.maxRetries = maxRetries, !.baseDelayMs = baseDelayMs,
                            !.attempt = 1,
                            !.pc = IF 1 <= maxRetries THEN "fn" ELSE "thrown"]
  /\ UNCHANGED <<job, activeScrapes, cancelledScrapes, now, config, probe, upload, activeUploads,
                 browser, category>>

\* return await fn(): the attempt resolves with value v
fnReturns(v) ==
  /\ retry.pc = "fn"
  /\ retry' = [retry EXCEPT !.pc = "returned", !.outcome = v,
                            !.log = Append(@, [ok |-> TRUE, value |-> v])]
  /\ UNCHANGED <<job, activeScrapes, cancelledScrapes, now, config, probe, upload, activeUploads,
                 browser, category>>

\* the catch block: the attempt rejects with error
fnThrows(error) ==
  /\ retry.pc = "fn"
  /\ error \in Errors
  /\ LET logged == [retry EXCEPT !.lastError = error,
                                 !.log = Append(@, [ok |-> FALSE, value |-> error])]
     IN retry' =
          IF ~isRetryable(error) \/ retry.attempt = retry.maxRetries
          THEN [logged EXCEPT !.pc = "thrown", !.outcome = error]
          ELSE [logged EXCEPT !.pc = "delay",
                  !.delays = Append(@, backoffDelay(retry.baseDelayMs, retry.attempt))]
  /\ UNCHANGED <<job, activeScrapes, cancelledScrapes, now, config, probe, upload, activeUploads,
                 browser, category>>

\* the setTimeout of the backoff fires: attempt++ and fn is invoked again,
\* or the loop is left and lastError thrown
delayOver ==
  /\ retry.pc = "delay"
  /\ retry' = IF retry.attempt + 1 <= retry.maxRetries
              THEN [retry EXCEPT !.attempt = @ + 1, !.pc = "fn"]
              ELSE [retry EXCEPT !.attempt = @ + 1, !.pc = "thrown",
                                 !.outcome = retry.lastError]
  /\ UNCHANGED <<job, activeScrapes, cancelledScrapes, now, config, probe, upload, activeUploads,
                 browser, category>>

(***************************************************************************)
(* Calls of the text filter on its own                                     *)
(***************************************************************************)
\* longest keyword and longest title of the enumerated arguments
MaxKeywordLen == 4
MaxTitleLen == 3

SeqsUpTo(S, n) == UNION {[1..k -> S] : k \in 0..n}

SherpaBlanket == <<"s", "h", "e", "r", "p", "a", " ", "b", "l", "a", "n", "k", "e", "t">>
PetCoolingMat == <<"P", "e", "t", " ", "C", "o", "o", "l", "i", "n", "g", " ", "M", "a", "t">>
SherpaFleeceThrow == <<"S", "h", "e", "r", "p", "a", " ", "F", "l", "e", "e", "c", "e", " ", "T", "h", "r", "o", "w", " ", "B", "l", "a", "n", "k", "e", "t", " ", "Q", "u", "e", "e", "n">>

\* searchTerm and productTitle are strings of the request body and of the
\* upstream catalog: any characters, tabs included
FilterKeywords == SeqsUpTo({"a", "B", " ", "\t"}, MaxKeywordLen) \cup {SherpaBlanket}
FilterTitles == SeqsUpTo({"a", "B", " "}, MaxTitleLen) \cup {PetCoolingMat, SherpaFleeceThrow}

IdleProbe == [pc |-> "idle", title |-> <<>>, keyword |-> <<>>, result |-> FALSE]

\* isRelevantProduct(probe.title, probe.keyword) is evaluated
applyFilter ==
  /\ probe.pc = "call"
  /\ probe' = [probe EXCEPT !.pc = "done",
                            !.result = isRelevantProduct(probe.title, probe.keyword)]
  /\ UNCHANGED <<job, activeScrapes, cancelledScrapes, now, config, retry, upload, activeUploads,
                 browser, category>>

(***************************************************************************)
(* Calls of searchCJProducts with a page size of the caller's choice       *)
(***************************************************************************)
\* options.pageSize defaults to 100
DEFAULT_PAGE_SIZE == 100

\* a page size above the upstream maximum, and the largest data.total
LargePageSize == 500
MaxTotal == 1000

PageSizeArgs == {DEFAULT_PAGE_SIZE, REQ_PAGE_SIZE, LargePageSize}

\* the upstream's answer for page 1 of a catalog of total items when asked
\* for pages of size sent: it reports the page size it served
pageOneOf(total, sent) ==
  [ok |-> TRUE, total |-> total, pageSize |-> sent,
   list |-> [k \in 1..Min(total, sent) |-> ItemX]]

\* searchCJProducts(term, token, {pageSize}) up to its totalPages
computeTotalPages ==
  /\ probe.pc = "pages"
  /\ LET r == pageOneOf(probe.total, sentPageSize(probe.pageSize))
     IN probe' = [probe EXCEPT !.pc = "pagesDone",
                               !.reported = r.pageSize,
                               !.result = totalPagesOf(totalCountOf(r), probe.pageSize)]
  /\ UNCHANGED <<job, activeScrapes, cancelledScrapes, now, config, retry, upload, activeUploads,
                 browser, category>>

(***************************************************************************)
(* Label matching of analyzeProductImage, server.js:208-354                *)
(***************************************************************************)
\* most labels of a label-detection response in the model
MaxLabels == 2


\* the entries of keywordExpansions (server.js:218-311) for the keys the
\* keywords of the model reach
ExpansionKeys == {<<"c", "a", "t">>, <<"p", "e", "t">>, <<"b", "e", "d", "d", "i", "n", "g">>}

keywordExpansions(key) ==
  CASE key = <<"c", "a", "t">> ->
         <<<<"c", "a", "t">>,
           <<"p", "e", "t">>,
           <<"a", "n", "i", "m", "a", "l">>,
           <<"f", "e", "l", "i", "n", "e">>,
           <<"k", "i", "t", "t", "e", "n">>,
           <<"t", "o", "y">>,
           <<"l", "i", "t", "t", "e", "r">>,
           <<"s", "c", "r", "a", "t", "c", "h", "i", "n", "g">>,
           <<"m", "o", "u", "s", "e">>>>
    [] key = <<"p", "e", "t">> ->
         <<<<"p", "e", "t">>,
           <<"a", "n", "i", "m", "a", "l">>,
           <<"d", "o", "g">>,
           <<"c", "a", "t">>,
           <<"t", "o", "y">>,
           <<"c", "o", "l", "l", "a", "r">>,
           <<"l", "e", "a", "s", "h">>,
           <<"b", "o", "w", "l">>,
           <<"f", "o", "o", "d">>,
           <<"t", "r", "e", "a", "t">>,
           <<"b", "e", "d">>>>
    [] key = <<"b", "e", "d", "d", "i", "n", "g">> ->
         <<<<"b", "e", "d", "d", "i", "n", "g">>,
           <<"s", "h", "e", "e", "t">>,
           <<"b", "l", "a", "n", "k", "e", "t">>,
           <<"p", "i", "l", "l", "o", "w">>,
           <<"d", "u", "v", "e", "t">>,
           <<"c", "o", "m", "f", "o", "r", "t", "e", "r">>,
           <<"m", "a", "t", "t", "r", "e", "s", "s">>,
           <<"t", "e", "x", "t", "i", "l", "e">>,
           <<"f", "a", "b", "r", "i", "c">>,
           <<"b", "e", "d">>>>

Range(seq) == {seq[k] : k \in DOMAIN seq}

RECURSIVE SplitRunsFrom(_, _, _, _)
\* String.prototype.split(/[\s+]+/): a run of separators ends a piece
SplitRunsFrom(s, seps, i, cur) ==
  IF i > Len(s) THEN <<cur>>
  ELSE IF s[i] \in seps
       THEN IF i > 1 /\ s[i - 1] \in seps
            THEN SplitRunsFrom(s, seps, i + 1, cur)
            ELSE <<cur>> \o SplitRunsFrom(s, seps, i + 1, <<>>)
       ELSE SplitRunsFrom(s, seps, i + 1, Append(cur, s[i]))

\* searchLower.split(/[\s+]+/).filter(w => w.length > 2), server.js:214-215
searchWordsOf(searchTerm) ==
  SelectSeq(SplitRunsFrom(toLowerCase(searchTerm), {" ", "\t", "+"}, 1, <<>>),
            LAMBDA w : Len(w) > 2)

\* validCategories, server.js:314-333
validCategoriesOf(searchWords) ==
  UNION {{w} \cup
         (IF w \in ExpansionKeys THEN Range(keywordExpansions(w)) ELSE {}) \cup
         UNION {Range(keywordExpansions(key)) :
                  key \in {x \in ExpansionKeys : includes(w, x) \/ includes(x, w)}}
           : w \in Range(searchWords)}

hasValidMatch_exact(detectedLabels, validCategories) ==
  \E k \in DOMAIN detectedLabels : detectedLabels[k] \in validCategories

\* server.js:339-343
hasValidMatch(detectedLabels, validCategories) ==
  \E k \in DOMAIN detectedLabels : \E valid \in validCategories :
    includes(detectedLabels[k], valid) \/ includes(valid, detectedLabels[k])

\* server.js:346-348
hasSearchTermMatch(searchWords, detectedLabels) ==
  \E w \in DOMAIN searchWords : \E k \in DOMAIN detectedLabels :
    includes(detectedLabels[k], searchWords[w]) \/ includes(searchWords[w], detectedLabels[k])

\* the value fn returns for a label-detection response, server.js:208-354
labelsMatch(descriptions, searchTerm) ==
  LET detectedLabels == [k \in DOMAIN descriptions |-> toLowerCase(descriptions[k])]
      searchWords == searchWordsOf(searchTerm)
  IN hasValidMatch(detectedLabels, validCategoriesOf(searchWords))
     \/ hasSearchTermMatch(searchWords, detectedLabels)

\* search terms and label descriptions of the model
MatchKeywords ==
  {<<"c", "a", "t", " ", "b", "e", "d">>,
   <<"C", "a", "t", "s">>,
   <<"p", "e", "t", "+", "m", "a", "t">>,
   <<"t", "v">>}

LabelVocabulary ==
  {<<"C", "a", "t">>,
   <<"F", "e", "l", "i", "d", "a", "e">>,
   <<"p", "e", "t", " ", "s", "u", "p", "p", "l", "y">>,
   <<"m", "a", "t", "t", "r", "e", "s", "s">>,
   <<"m", "a">>,
   <<"t", "a", "b", "l", "e">>}

\* labelsMatch(probe.labels, probe.keyword) is evaluated
applyMatch ==
  /\ probe.pc = "match"
  /\ probe' = [probe EXCEPT !.pc = "matchDone",
                            !.result = labelsMatch(probe.labels, probe.keyword)]
  /\ UNCHANGED <<job, activeScrapes, cancelledScrapes, now, config, retry, upload, activeUploads,
                 browser, category>>

(***************************************************************************)
(* The strict text filter, src/api/scrape.js:5-66                          *)
(***************************************************************************)
\* most words of a product title in the model
MaxTitleWords == 2

invalidCategories ==
  {<<"h", "o", "o", "d", "i", "e">>,
   <<"s", "w", "e", "a", "t", "s", "h", "i", "r", "t">>,
   <<"j", "a", "c", "k", "e", "t">>,
   <<"c", "o", "a", "t">>,
   <<"s", "w", "e", "a", "t", "e", "r">>,
   <<"s", "h", "i", "r", "t">>,
   <<"p", "a", "n", "t", "s">>,
   <<"j", "o", "g", "g", "e", "r", "s">>,
   <<"p", "u", "l", "l", "o", "v", "e", "r">>,
   <<"c", "a", "r", "d", "i", "g", "a", "n">>,
   <<"v", "e", "s", "t">>,
   <<"s", "h", "o", "r", "t", "s">>,
   <<"l", "e", "g", "g", "i", "n", "g", "s">>,
   <<"d", "r", "e", "s", "s">>,
   <<"s", "k", "i", "r", "t">>,
   <<"s", "h", "o", "e", "s">>,
   <<"s", "n", "e", "a", "k", "e", "r", "s">>,
   <<"b", "o", "o", "t", "s">>,
   <<"s", "l", "i", "p", "p", "e", "r", "s">>,
   <<"s", "a", "n", "d", "a", "l", "s">>,
   <<"l", "o", "a", "f", "e", "r", "s">>,
   <<"d", "o", "g">>,
   <<"c", "a", "t">>,
   <<"p", "e", "t">>,
   <<"p", "u", "p", "p", "y">>,
   <<"k", "i", "t", "t", "e", "n">>,
   <<"b", "a", "b", "y">>,
   <<"i", "n", "f", "a", "n", "t">>,
   <<"t", "o", "d", "d", "l", "e", "r">>,
   <<"k", "i", "d", "s">>,
   <<"c", "h", "i", "l", "d", "r", "e", "n">>,
   <<"p", "i", "l", "l", "o", "w">>,
   <<"c", "u", "s", "h", "i", "o", "n">>,
   <<"m", "a", "t">>,
   <<"r", "u", "g">>,
   <<"c", "a", "r", "p", "e", "t">>,
   <<"c", "u", "r", "t", "a", "i", "n">>,
   <<"t", "o", "w", "e", "l">>,
   <<"s", "h", "e", "e", "t">>,
   <<"d", "u", "v", "e", "t">>,
   <<"c", "o", "m", "f", "o", "r", "t", "e", "r">>,
   <<"q", "u", "i", "l", "t", " ", "c", "o", "v", "e", "r">>,
   <<"s", "c", "a", "r", "f">>,
   <<"s", "h", "a", "w", "l">>,
   <<"g", "l", "o", "v", "e", "s">>,
   <<"m", "i", "t", "t", "e", "n", "s">>,
   <<"h", "a", "t">>,
   <<"b", "e", "a", "n", "i", "e">>}

SpaceBlanket == <<" ", "b", "l", "a", "n", "k", "e", "t">>
SpaceThrow == <<" ", "t", "h", "r", "o", "w">>

hasBlanketsAfter_anywhere(lowerTitle, invalid) ==
  includes(lowerTitle, SpaceBlanket) \/ includes(lowerTitle, SpaceThrow)

\* src/api/scrape.js:44-45
hasBlanketsAfter(lowerTitle, invalid) ==
  \/ includes(lowerTitle, invalid \o SpaceBlanket)
  \/ includes(lowerTitle, invalid \o SpaceThrow)

\* isRelevantProduct of src/api/scrape.js:6
isRelevantProductStrict(productTitle, searchTerm) ==
  LET lowerTitle == toLowerCase(productTitle)
      lowerSearch == toLowerCase(searchTerm)
      searchWords == SelectSeq(split(lowerSearch), LAMBDA w : Len(w) > 2)
      allWordsPresent == \A k \in DOMAIN searchWords : includes(lowerTitle, searchWords[k])
  IN IF ~allWordsPresent THEN FALSE
     ELSE IF \E invalid \in invalidCategories :
               includes(lowerTitle, invalid) /\ ~hasBlanketsAfter(lowerTitle, invalid)
          THEN FALSE
     ELSE IF /\ includes(lowerSearch, <<"t", "h", "r", "o", "w">>) /\ includes(lowerSearch, <<"b", "l", "a", "n", "k", "e", "t">>)
             /\ (~includes(lowerTitle, <<"t", "h", "r", "o", "w">>) \/ ~includes(lowerTitle, <<"b", "l", "a", "n", "k", "e", "t">>))
          THEN FALSE
     ELSE IF includes(lowerSearch, <<"s", "h", "e", "r", "p", "a">>) /\ ~includes(lowerTitle, <<"s", "h", "e", "r", "p", "a">>)
          THEN FALSE
     ELSE TRUE

RECURSIVE JoinWords(_)
JoinWords(ws) ==
  IF Len(ws) = 0 THEN <<>>
  ELSE IF Len(ws) = 1 THEN ws[1]
  ELSE ws[1] \o <<" ">> \o JoinWords(Tail(ws))

\* product titles and search terms of the model
StrictTitleWords ==
  {<<"D", "o", "g">>,
   <<"t", "h", "r", "o", "w">>,
   <<"B", "l", "a", "n", "k", "e", "t">>,
   <<"t", "o", "y">>,
   <<"S", "h", "e", "r", "p", "a">>,
   <<"c", "a", "r", "p", "e", "t", "s">>}

StrictTitles == {JoinWords(ws) : ws \in SeqsUpTo(StrictTitleWords, MaxTitleWords)}

StrictKeywords ==
  {<<"t", "h", "r", "o", "w">>,
   <<"d", "o", "g", " ", "t", "h", "r", "o", "w">>,
   <<"T", "h", "r", "o", "w", " ", "b", "l", "a", "n", "k", "e", "t">>,
   <<"s", "h", "e", "r", "p", "a">>,
   <<"a", " ", "t", "o", "y">>,
   <<"d", "o", "g", "\t", "t", "h", "r", "o", "w">>}

\* isRelevantProduct(probe.title, probe.keyword) of the strict filter is evaluated
applyStrict ==
  /\ probe.pc = "strict"
  /\ probe' = [probe EXCEPT !.pc = "strictDone",
                            !.result = isRelevantProductStrict(probe.title, probe.keyword)]
  /\ UNCHANGED <<job, activeScrapes, cancelledScrapes, now, config, retry, upload, activeUploads,
                 browser, category>>

(***************************************************************************)
(* One call of analyzeProductImage, server.js:156-362                      *)
(***************************************************************************)
\* which of GOOGLE_VISION_API_KEY and the service-account settings are set
Credentials == {"none", "apiKey", "serviceAccount"}

\* analyzeProductImage is called: without credentials it returns true at
\* once (159-161); otherwise withRetry is entered with its defaults and the
\* callback runs up to its first await (164-167)
analyzeBegin ==
  /\ probe.pc = "analyze"
  /\ retry.pc = "idle"
  /\ IF probe.creds = "none"
     THEN /\ probe' = [probe EXCEPT !.pc = "analyzed", !.result = TRUE]
          /\ UNCHANGED retry
     ELSE /\ probe' = [probe EXCEPT !.pc = "retrying"]
          /\ retry' = [retry EXCEPT !.maxRetries = DEFAULT_MAX_RETRIES,
                                    !.baseDelayMs = DEFAULT_BASE_DELAY_MS,
                                    !.attempt = 1, !.pc = "fn"]
  /\ UNCHANGED <<job, activeScrapes, cancelledScrapes, now, config, upload, activeUploads,
                 browser, category>>

analyzeEnd_noCatch ==
  /\ probe.pc = "retrying"
  /\ retry.pc \in {"returned", "thrown"}
  /\ probe' = IF retry.pc = "returned"
              THEN [probe EXCEPT !.pc = "analyzed", !.result = retry.outcome]
              ELSE [probe EXCEPT !.pc = "threw"]
  /\ UNCHANGED <<job, activeScrapes, cancelledScrapes, now, config, retry, upload, activeUploads,
                 browser, category>>

\* withRetry has settled: its value is returned (164), an error it threw is
\* caught and true is returned (357-361)
analyzeEnd ==
  /\ probe.pc = "retrying"
  /\ retry.pc \in {"returned", "thrown"}
  /\ probe' = [probe EXCEPT
                 !.pc = "analyzed",
                 !.result = analyzeProductImage(
                              IF retry.pc = "thrown" THEN "error"
                              ELSE IF retry.outcome THEN "match" ELSE "nomatch")]
  /\ UNCHANGED <<job, activeScrapes, cancelledScrapes, now, config, retry, upload, activeUploads,
                 browser, category>>

(***************************************************************************)
(* The two text filters on the same arguments                              *)
(***************************************************************************)
\* the search terms of the strict filter and two without a word longer
\* than 2 characters
BothKeywords ==
  StrictKeywords \cup {<<"t", "v">>, <<"a", " ", "b">>}

\* isRelevantProduct of src/api/scrape.js and of server.js are evaluated on
\* probe.title and probe.keyword
applyBoth ==
  /\ probe.pc = "both"
  /\ probe' = [probe EXCEPT !.pc = "bothDone",
                            !.strict = isRelevantProductStrict(probe.title, probe.keyword),
                            !.relaxed = isRelevantProduct(probe.title, probe.keyword)]
  /\ UNCHANGED <<job, activeScrapes, cancelledScrapes, now, config, retry, upload, activeUploads,
                 browser, category>>

(***************************************************************************)
(* POST /api/upload-shopify, server.js:635-896                             *)
(***************************************************************************)
\* server.js:665 sets BATCH_SIZE to 20; the model scales it down
BATCH_SIZE == 2
\* most products of a request body in the model
MaxUploadProducts == 3

\* the id of the upload call of the model
UploadId == 1

\* req.body.products: product k carries title k
UploadProducts == {[k \in 1..n |-> k] : n \in 0..MaxUploadProducts}

\* batches.length, server.js:706-708
numBatches(products) == CeilDiv(Len(products), BATCH_SIZE)

\* batches[batchIndex], a slice of BATCH_SIZE products
uploadBatch(products, batchIndex) ==
  SubSeq(products, batchIndex * BATCH_SIZE + 1,
         Min((batchIndex + 1) * BATCH_SIZE, Len(products)))

\* activeUploads.get(uploadId)?.cancelled
uploadCancelled(au) == UploadId \in DOMAIN au /\ au[UploadId].cancelled

\* the entries pushed for a failed batch, server.js:783-789 and 846-852
allFailed(batch) == [k \in DOMAIN batch |-> [title |-> batch[k], success |-> FALSE]]

RECURSIVE dataEntries(_, _, _)
\* Object.keys(data).forEach, server.js:792-810: an entry for a created
\* product, an entry for user errors, nothing for a result with neither
dataEntries(batch, items, k) ==
  IF k > Len(batch) THEN <<>>
  ELSE (CASE items[k] = "product"    -> <<[title |-> batch[k], success |-> TRUE]>>
          [] items[k] = "userErrors" -> <<[title |-> batch[k], success |-> FALSE]>>
          [] items[k] = "neither"    -> <<>>)
       \o dataEntries(batch, items, k + 1)

\* the bodies of a 2xx answer of the GraphQL endpoint for a batch of m
\* products: errors, data with one result per alias, or neither; throttle
\* is extensions.cost.throttleStatus ("none": absent, "low": under 20%
\* available, "mid": under 50%)
UploadResponses(m) ==
  {[kind |-> kind, items |-> items, throttle |-> t] :
     kind \in {"errors", "empty"}, items \in {<<>>}, t \in {"none", "low", "mid", "ok"}}
  \cup
  {[kind |-> kind, items |-> items, throttle |-> t] :
     kind \in {"data"}, items \in [1..m -> {"product", "userErrors", "neither"}],
     t \in {"none", "low", "mid", "ok"}}

\* the statuses of a rejected axios.post: 0 is an error without response
UploadErrorStatuses == {0, 429, 500}

\* the summary and res.json of server.js:856-877
uploadFinish(u) ==
  [u EXCEPT !.pc = "done",
            !.resp = [status |-> 200, success |-> TRUE,
                      total |-> Len(u.products),
                      uploaded |-> Len(SelectSeq(u.results, LAMBDA r : r.success)),
                      failed |-> Len(SelectSeq(u.results, LAMBDA r : ~r.success)),
                      results |-> u.results]]

\* head of the batch loop at u.batchIndex: the loop condition, the
\* cancellation check (718-721), then the mutation is posted
uploadLoopHead(u, au) ==
  IF u.batchIndex >= numBatches(u.products) THEN uploadFinish(u)
  ELSE IF uploadCancelled(au) THEN uploadFinish(u)
  ELSE [u EXCEPT !.pc = "post"]

\* activeUploads.delete(uploadId) when the handler has responded
uploadsAfter(au, u) ==
  IF u.pc = "done" THEN [k \in DOMAIN au \ {UploadId} |-> au[k]] ELSE au

\* the handler is called: validation, the session is registered, the
\* batches are built and the first one is posted
StartUpload(products, hasCredentials) ==
  /\ upload.pc = "idle"
  /\ IF Len(products) = 0
     THEN /\ upload' = [upload EXCEPT !.pc = "done",
                          !.resp = [status |-> 400, error |-> "Products array is required"]]
          /\ UNCHANGED activeUploads
     ELSE IF ~hasCredentials
     THEN /\ upload' = [upload EXCEPT !.pc = "done",
                          !.resp = [status |-> 400, error |-> "Shopify credentials required"]]
          /\ UNCHANGED activeUploads
     ELSE LET au == [k \in DOMAIN activeUploads \cup {UploadId} |->
                       IF k = UploadId THEN [cancelled |-> FALSE, startedAt |-> now]
                       ELSE activeUploads[k]]
              next == uploadLoopHead([upload EXCEPT !.products = products,
                                                    !.batchIndex = 0], au)
          IN /\ upload' = next
             /\ activeUploads' = uploadsAfter(au, next)
  /\ UNCHANGED <<job, activeScrapes, cancelledScrapes, now, config, retry, probe,
                 browser, category>>

\* axios.post resolves: the results of the batch are pushed, then the
\* handler waits for the throttle (2 s or 500 ms) or for the 200 ms pause
PostReturns(response) ==
  /\ upload.pc = "post"
  /\ LET batch == uploadBatch(upload.products, upload.batchIndex)
     IN /\ response \in UploadResponses(Len(batch))
        /\ upload' = [upload EXCEPT
             !.results = @ \o (CASE response.kind = "errors" -> allFailed(batch)
                                 [] response.kind = "data" ->
                                      dataEntries(batch, response.items, 1)
                                 [] response.kind = "empty" -> <<>>),
             !.pc = IF response.throttle \in {"low", "mid"} THEN "throttleWait"
                    ELSE "pause"]
  /\ UNCHANGED <<job, activeScrapes, cancelledScrapes, now, config, retry, probe,
                 activeUploads, browser, category>>

\* the throttle wait is over: the 200 ms pause starts
ThrottleOver ==
  /\ upload.pc = "throttleWait"
  /\ upload' = [upload EXCEPT !.pc = "pause"]
  /\ UNCHANGED <<job, activeScrapes, cancelledScrapes, now, config, retry, probe,
                 activeUploads, browser, category>>

\* the 200 ms pause is over: batchIndex++ and the loop head runs
PauseOver ==
  /\ upload.pc = "pause"
  /\ LET next == uploadLoopHead([upload EXCEPT !.batchIndex = @ + 1], activeUploads)
     IN /\ upload' = next
        /\ activeUploads' = uploadsAfter(activeUploads, next)
  /\ UNCHANGED <<job, activeScrapes, cancelledScrapes, now, config, retry, probe,
                 browser, category>>

\* the catch of server.js:832-854: axios.post rejects; on 429 the handler
\* waits retry-after seconds, else the batch is marked failed, batchIndex++
\* and the loop head runs
PostThrows(status) ==
  /\ upload.pc = "post"
  /\ status \in UploadErrorStatuses
  /\ LET batch == uploadBatch(upload.products, upload.batchIndex)
         next == IF status = 429 THEN [upload EXCEPT !.pc = "retryWait"]
                 ELSE uploadLoopHead([upload EXCEPT !.results = @ \o allFailed(batch),
                                                    !.batchIndex = @ + 1],
                                     activeUploads)
     IN /\ upload' = next
        /\ activeUploads' = uploadsAfter(activeUploads, next)
  /\ UNCHANGED <<job, activeScrapes, cancelledScrapes, now, config, retry, probe,
                 browser, category>>

\* the retry-after wait is over: batchIndex--, continue (batchIndex++), and
\* the loop head runs for the same batch
RetryOver ==
  /\ upload.pc = "retryWait"
  /\ LET next == uploadLoopHead([upload EXCEPT !.batchIndex = (@ - 1) + 1], activeUploads)
     IN /\ upload' = next
        /\ activeUploads' = uploadsAfter(activeUploads, next)
  /\ UNCHANGED <<job, activeScrapes, cancelledScrapes, now, config, retry, probe,
                 browser, category>>

\* POST /api/upload-shopify/cancel-all, server.js:887-896
CancelAllUploads ==
  /\ activeUploads' = << >>
  /\ upload' = IF UploadId \in DOMAIN activeUploads
               THEN [upload EXCEPT !.cancelAllSeen = TRUE] ELSE upload
  /\ UNCHANGED <<job, activeScrapes, cancelledScrapes, now, config, retry, probe,
                 browser, category>>

(***************************************************************************)
(* scrapeCJDropshipping, src/api/scrape.js:69-230                          *)
(***************************************************************************)
\* most products a result page holds in the model
MaxPageProducts == 2

\* what page.evaluate returns for the pagination on page 1: 0 stands for a
\* value that is falsy (0 or NaN)
DetectedTotalPages == {0, 1, 3, 12}

overSafetyLimit_never(currentPage) == FALSE

\* currentPage > 10, src/api/scrape.js:188
overSafetyLimit(currentPage) == currentPage > 10

\* the return value of src/api/scrape.js:213-221
browserResult(b) ==
  [b EXCEPT !.pc = "done",
            !.resp = [success |-> TRUE, pagesScraped |-> b.currentPage - 1,
                      totalFound |-> b.allProducts]]

\* scrapeCJDropshipping is called: the browser starts and page 1 is
\* requested, or puppeteer.launch rejects and the catch of line 223 answers
StartBrowser(launched) ==
  /\ browser.pc = "idle"
  /\ browser' =
       IF launched
       THEN [browser EXCEPT !.pc = "page", !.currentPage = 1,
                            !.hasMorePages = TRUE, !.requested = <<1>>]
       ELSE [browser EXCEPT !.pc = "done"]
  /\ UNCHANGED <<job, activeScrapes, cancelledScrapes, now, config, retry, probe,
                 upload, activeUploads, category>>

\* the page has loaded with n products; on page 1 the pagination shows
\* detected pages. The body of the while loop from line 106 to its end.
PageLoaded(n, detected) ==
  /\ browser.pc = "page"
  /\ n \in 0..MaxPageProducts
  /\ detected \in DetectedTotalPages
  /\ LET b1 == IF browser.currentPage = 1
               THEN [browser EXCEPT !.totalPages = detected] ELSE browser
         b2 == [b1 EXCEPT !.allProducts = @ + n,
                          !.nonEmpty = @ + 1,
                          !.currentPage = @ + 1]
         more == /\ ~(b2.totalPages # 0 /\ b2.currentPage > b2.totalPages)
                 /\ ~overSafetyLimit(b2.currentPage)
     IN browser' =
          IF n = 0 THEN browserResult([b1 EXCEPT !.hasMorePages = FALSE])
          ELSE IF more THEN [b2 EXCEPT !.pc = "delay"]
          ELSE browserResult([b2 EXCEPT !.hasMorePages = FALSE])
  /\ UNCHANGED <<job, activeScrapes, cancelledScrapes, now, config, retry, probe,
                 upload, activeUploads, category>>

\* the one-second delay is over: the next page is requested
BrowserDelayOver ==
  /\ browser.pc = "delay"
  /\ browser' = [browser EXCEPT !.pc = "page",
                                !.requested = Append(@, browser.currentPage)]
  /\ UNCHANGED <<job, activeScrapes, cancelledScrapes, now, config, retry, probe,
                 upload, activeUploads, category>>

\* page.goto or page.evaluate rejects: the catch of line 223
PageFails ==
  /\ browser.pc = "page"
  /\ browser' = [browser EXCEPT !.pc = "done",
                   !.resp = [success |-> FALSE, pagesScraped |-> 0, totalFound |-> 0]]
  /\ UNCHANGED <<job, activeScrapes, cancelledScrapes, now, config, retry, probe,
                 upload, activeUploads, category>>

(***************************************************************************)
(* getCategoryIndex, src/backend/category-service.js:75-131                *)
(***************************************************************************)
\* 24 * 60 * 60 * 1000
CACHE_DURATION == 86400000
\* the step of the clock and the number of steps in the model
HalfDayMs == 43200000
MaxHalfDays == 3
\* calls of getCategoryIndex, one after the other
MaxCategoryCalls == 2

\* the cache file the server may find when it starts
CacheFilesAtStart ==
  {IdleCategory.file,
   [exists |-> TRUE, mtimeMs |-> 0, content |-> "valid"],
   [exists |-> TRUE, mtimeMs |-> 0, content |-> "corrupt"]}

cacheFresh_never(age) == FALSE

\* age < CACHE_DURATION, category-service.js:80
cacheFresh(age) == age < CACHE_DURATION

\* fetchCategoriesFromAPI is called
callCategoryApi(c) == [c EXCEPT !.pc = "api", !.apiCalls = @ + 1]

\* getCategoryIndex is called: fs.stat is awaited
getCategoryIndex ==
  /\ category.pc \in {"idle", "done"}
  /\ category.calls < MaxCategoryCalls
  /\ category' = [category EXCEPT !.pc = "stat", !.calls = @ + 1,
                                  !.result = "none", !.readError = FALSE]
  /\ UNCHANGED <<job, activeScrapes, cancelledScrapes, now, config, retry, probe,
                 upload, activeUploads, browser>>

\* fs.stat settles: without a file it rejects and the API is called; a
\* file that is not fresh is expired and the API is called; else the file
\* is read
StatSettles ==
  /\ category.pc = "stat"
  /\ category' =
       IF ~category.file.exists THEN callCategoryApi(category)
       ELSE IF cacheFresh(now - category.file.mtimeMs)
            THEN [category EXCEPT !.pc = "read"]
            ELSE callCategoryApi(category)
  /\ UNCHANGED <<job, activeScrapes, cancelledScrapes, now, config, retry, probe,
                 upload, activeUploads, browser>>

\* fs.readFile settles: the parsed data is returned, or, when the read or
\* JSON.parse fails, the API is called
ReadSettles(readOk) ==
  /\ category.pc = "read"
  /\ category' =
       IF readOk /\ category.file.content = "valid"
       THEN [category EXCEPT !.pc = "done", !.result = "cached"]
       ELSE callCategoryApi([category EXCEPT !.readError = ~readOk])
  /\ UNCHANGED <<job, activeScrapes, cancelledScrapes, now, config, retry, probe,
                 upload, activeUploads, browser>>

\* axios.get settles: with code 200 the index is built and the cache is
\* written; any other answer makes getCategoryIndex throw
ApiSettles(apiOk) ==
  /\ category.pc = "api"
  /\ category' = IF apiOk THEN [category EXCEPT !.pc = "write"]
                 ELSE [category EXCEPT !.pc = "done", !.result = "threw"]
  /\ UNCHANGED <<job, activeScrapes, cancelledScrapes, now, config, retry, probe,
                 upload, activeUploads, browser>>

\* cacheCategories settles: the file is written, is left as it was, or is
\* left with a part of the data; the fetched data is returned
WriteSettles(outcome) ==
  /\ category.pc = "write"
  /\ outcome \in {"written", "failed", "partial"}
  /\ category' =
       [category EXCEPT
          !.pc = "done", !.result = "fetched",
          !.file = CASE outcome = "written" ->
                          [exists |-> TRUE, mtimeMs |-> now, content |-> "valid"]
                     [] outcome = "partial" ->
                          [exists |-> TRUE, mtimeMs |-> now, content |-> "corrupt"]
                     [] outcome = "failed" -> @]
  /\ UNCHANGED <<job, activeScrapes, cancelledScrapes, now, config, retry, probe,
                 upload, activeUploads, browser>>

\* twelve hours pass
HalfDayPasses ==
  /\ now < MaxHalfDays * HalfDayMs
  /\ now' = now + HalfDayMs
  /\ UNCHANGED <<job, activeScrapes, cancelledScrapes, config, retry, probe,
                 upload, activeUploads, browser, category>>

\* The requests the j-th caller may send: the first caller any request, the
\* second a search with image detection over a one-page catalog, any
\* further caller a request without search term.
Requests(j) ==
  IF j = 1 THEN [hasTerm : BOOLEAN, img : BOOLEAN, cat : CatalogNames]
  ELSE IF j = 2 THEN [hasTerm : {TRUE}, img : {TRUE}, cat : {"one"}]
  ELSE [hasTerm : {FALSE}, img : {FALSE}, cat : {"none"}]

(***************************************************************************)
(* Specification                                                           *)
(***************************************************************************)
Init ==
  /\ job = [j \in Jobs |-> IdleJob]
  /\ activeScrapes = << >>
  /\ cancelledScrapes = {}
  /\ now = 0
  /\ config \in Configs
  /\ retry = IdleRetry
  /\ upload = IdleUpload
  /\ activeUploads = << >>
  /\ browser = IdleBrowser
  /\ category = IdleCategory
  /\ probe = IdleProbe

Next ==
  \/ \E j \in Jobs : \E req \in Requests(j) :
       StartScrape(j, req.hasTerm, req.img, req.cat)
  \/ \E j \in Jobs : \E r \in UpstreamResponses(job[j].catalog, 1,
                                                 sentPageSize(REQ_PAGE_SIZE)) :
       FirstPage(j, r)
  \/ \E j \in Jobs : PageDelay(j)
  \/ \E j \in Jobs : \E r \in UpstreamResponses(job[j].catalog, job[j].page,
                                                 sentPageSize(REQ_PAGE_SIZE)) :
       NextPage(j, r)
  \/ \E j \in Jobs, k \in 1..VISION_BATCH_SIZE, outcome \in {"match", "nomatch", "error"} :
       ItemDone(j, k, outcome)
  \/ \E j \in Jobs : Cooldown(j)
  \/ \E id \in Jobs \cup {0} : Cancel(id)
  \/ CancelAll
  \/ Tick

Spec == Init /\ [][Next]_vars

\* One search over the catalog of 50,000 products, nothing else running;
\* after page 1 the upstream answers every page it can serve.
InitBig ==
  /\ Init
  /\ config = [hasToken |-> TRUE, vision |-> "up"]

NextBig ==
  \/ StartScrape(1, TRUE, TRUE, "big")
  \/ \E r \in UpstreamResponses(job[1].catalog, 1, sentPageSize(REQ_PAGE_SIZE)) :
       FirstPage(1, r)
  \/ PageDelay(1)
  \/ \E r \in UpstreamResponses(job[1].catalog, job[1].page, sentPageSize(REQ_PAGE_SIZE)) :
       /\ job[1].page <= MaxFetchablePages(sentPageSize(REQ_PAGE_SIZE)) => r.ok
       /\ NextPage(1, r)

SpecBig == InitBig /\ [][NextBig]_vars

\* One call of withRetry, with the default arguments or others, and every
\* course its attempts can take.
InitRetry ==
  /\ Init
  /\ config = [hasToken |-> TRUE, vision |-> "up"]

NextRetry ==
  \/ \E m \in 1..MaxRetriesArg, b \in {DEFAULT_BASE_DELAY_MS, ShortBaseDelayMs} : withRetry(m, b)
  \/ \E v \in BOOLEAN : fnReturns(v)
  \/ \E error \in Errors : fnThrows(error)
  \/ delayOver

SpecRetry == InitRetry /\ [][NextRetry]_vars

\* One call of the relaxed text filter on any title and keyword.
InitFilter ==
  /\ job = [j \in Jobs |-> IdleJob]
  /\ activeScrapes = << >>
  /\ cancelledScrapes = {}
  /\ now = 0
  /\ config = [hasToken |-> TRUE, vision |-> "up"]
  /\ retry = IdleRetry
  /\ upload = IdleUpload
  /\ activeUploads = << >>
  /\ browser = IdleBrowser
  /\ category = IdleCategory
  /\ probe \in [pc : {"call"}, title : FilterTitles, keyword : FilterKeywords,
                 result : {FALSE}]

NextFilter == applyFilter

SpecFilter == InitFilter /\ [][NextFilter]_vars

\* One search over a catalog whose first group holds two items with an
\* image, so that classifier calls of one group run concurrently; the
\* caller may cancel it at any time.
InitStage ==
  /\ job = [j \in Jobs |-> [IdleJob EXCEPT !.outOfOrder = "no"]]
  /\ activeScrapes = << >>
  /\ cancelledScrapes = {}
  /\ now = 0
  /\ config = [hasToken |-> TRUE, vision |-> "up"]
  /\ retry = IdleRetry
  /\ upload = IdleUpload
  /\ activeUploads = << >>
  /\ browser = IdleBrowser
  /\ category = IdleCategory
  /\ probe = IdleProbe

NextStage ==
  \/ StartScrape(1, TRUE, TRUE, "wide")
  \/ \E r \in UpstreamResponses(job[1].catalog, 1, sentPageSize(REQ_PAGE_SIZE)) :
       FirstPage(1, r)
  \/ \E k \in 1..VISION_BATCH_SIZE, outcome \in {"match", "nomatch", "error"} :
       ItemDone(1, k, outcome)
  \/ Cooldown(1)
  \/ Cancel(1)
  \/ Tick

SpecStage == InitStage /\ [][NextStage]_vars

\* One call of searchCJProducts for any total and any page size.
InitPages ==
  /\ job = [j \in Jobs |-> IdleJob]
  /\ activeScrapes = << >>
  /\ cancelledScrapes = {}
  /\ now = 0
  /\ config = [hasToken |-> TRUE, vision |-> "up"]
  /\ retry = IdleRetry
  /\ upload = IdleUpload
  /\ activeUploads = << >>
  /\ browser = IdleBrowser
  /\ category = IdleCategory
  /\ probe \in [pc : {"pages"}, total : 0..MaxTotal, pageSize : PageSizeArgs,
                 reported : {0}, result : {0}]

NextPages == computeTotalPages

SpecPages == InitPages /\ [][NextPages]_vars

\* One search without image detection: the fetch of the pages of a catalog,
\* any of which may fail, while time passes.
InitFetch ==
  /\ Init
  /\ config = [hasToken |-> TRUE, vision |-> "nocreds"]

NextFetch ==
  \/ \E cat \in CatalogNames \cup {"wide"} : StartScrape(1, TRUE, FALSE, cat)
  \/ \E r \in UpstreamResponses(job[1].catalog, 1, sentPageSize(REQ_PAGE_SIZE)) :
       FirstPage(1, r)
  \/ PageDelay(1)
  \/ \E r \in UpstreamResponses(job[1].catalog, job[1].page, sentPageSize(REQ_PAGE_SIZE)) :
       NextPage(1, r)
  \/ Tick

SpecFetch == InitFetch /\ [][NextFetch]_vars

\* One label-detection response matched against one search term.
InitMatch ==
  /\ job = [j \in Jobs |-> IdleJob]
  /\ activeScrapes = << >>
  /\ cancelledScrapes = {}
  /\ now = 0
  /\ config = [hasToken |-> TRUE, vision |-> "up"]
  /\ retry = IdleRetry
  /\ upload = IdleUpload
  /\ activeUploads = << >>
  /\ browser = IdleBrowser
  /\ category = IdleCategory
  /\ probe \in [pc : {"match"}, keyword : MatchKeywords,
                 labels : SeqsUpTo(LabelVocabulary, MaxLabels), result : {FALSE}]

NextMatch == applyMatch

SpecMatch == InitMatch /\ [][NextMatch]_vars

\* One call of the strict text filter.
InitStrict ==
  /\ job = [j \in Jobs |-> IdleJob]
  /\ activeScrapes = << >>
  /\ cancelledScrapes = {}
  /\ now = 0
  /\ config = [hasToken |-> TRUE, vision |-> "up"]
  /\ retry = IdleRetry
  /\ upload = IdleUpload
  /\ activeUploads = << >>
  /\ browser = IdleBrowser
  /\ category = IdleCategory
  /\ probe \in [pc : {"strict"}, title : StrictTitles, keyword : StrictKeywords,
                 result : {FALSE}]

NextStrict == applyStrict

SpecStrict == InitStrict /\ [][NextStrict]_vars

\* One call of analyzeProductImage for the search term "cat bed": every
\* attempt either fails in the download or in the label detection with one
\* of Errors, or gets a response with at most one label.
InitVision ==
  /\ job = [j \in Jobs |-> IdleJob]
  /\ activeScrapes = << >>
  /\ cancelledScrapes = {}
  /\ now = 0
  /\ config = [hasToken |-> TRUE, vision |-> "up"]
  /\ retry = IdleRetry
  /\ upload = IdleUpload
  /\ activeUploads = << >>
  /\ browser = IdleBrowser
  /\ category = IdleCategory
  /\ probe \in [pc : {"analyze"}, creds : Credentials, result : {FALSE}]

NextVision ==
  \/ analyzeBegin
  \/ \E labels \in SeqsUpTo(LabelVocabulary, 1) :
       probe.pc = "retrying" /\ fnReturns(labelsMatch(labels, Keyword))
  \/ \E error \in Errors : probe.pc = "retrying" /\ fnThrows(error)
  \/ probe.pc = "retrying" /\ delayOver
  \/ analyzeEnd

SpecVision == InitVision /\ [][NextVision]_vars

\* One call of each text filter on the same title and search term.
InitBoth ==
  /\ job = [j \in Jobs |-> IdleJob]
  /\ activeScrapes = << >>
  /\ cancelledScrapes = {}
  /\ now = 0
  /\ config = [hasToken |-> TRUE, vision |-> "up"]
  /\ retry = IdleRetry
  /\ upload = IdleUpload
  /\ activeUploads = << >>
  /\ browser = IdleBrowser
  /\ category = IdleCategory
  /\ probe \in [pc : {"both"}, title : StrictTitles, keyword : BothKeywords,
                 strict : {FALSE}, relaxed : {FALSE}]

NextBoth == applyBoth

SpecBoth == InitBoth /\ [][NextBoth]_vars

\* Searches that run side by side, each over the one-page catalog, and
\* cancel requests for any of them.
InitCancel ==
  /\ Init
  /\ config = [hasToken |-> TRUE, vision |-> "up"]

NextCancel ==
  \/ \E j \in Jobs : StartScrape(j, TRUE, TRUE, "one")
  \/ \E j \in Jobs : \E r \in UpstreamResponses(job[j].catalog, 1,
                                                 sentPageSize(REQ_PAGE_SIZE)) :
       FirstPage(j, r)
  \/ \E j \in Jobs, k \in 1..VISION_BATCH_SIZE, outcome \in {"match", "nomatch", "error"} :
       ItemDone(j, k, outcome)
  \/ \E id \in Jobs : Cancel(id)

SpecCancel == InitCancel /\ [][NextCancel]_vars

\* One upload, its publishing service answering in any way, and cancel-all
\* requests at any time.
InitUpload ==
  /\ Init
  /\ config = [hasToken |-> TRUE, vision |-> "up"]

NextUpload ==
  \/ \E products \in UploadProducts, hasCredentials \in BOOLEAN :
       StartUpload(products, hasCredentials)
  \/ \E response \in UploadResponses(
                        Len(uploadBatch(upload.products, upload.batchIndex))) :
       PostReturns(response)
  \/ ThrottleOver
  \/ PauseOver
  \/ \E status \in UploadErrorStatuses : PostThrows(status)
  \/ RetryOver
  \/ CancelAllUploads

SpecUpload == InitUpload /\ [][NextUpload]_vars

\* The same upload where every timer fires and every request is answered
\* in the end.
SpecUploadFair == SpecUpload /\ WF_vars(NextUpload)

\* One call of scrapeCJDropshipping over any result pages.
InitBrowser ==
  /\ Init
  /\ config = [hasToken |-> TRUE, vision |-> "up"]

NextBrowser ==
  \/ \E launched \in BOOLEAN : StartBrowser(launched)
  \/ \E n \in 0..MaxPageProducts, detected \in DetectedTotalPages : PageLoaded(n, detected)
  \/ BrowserDelayOver
  \/ PageFails

SpecBrowser == InitBrowser /\ [][NextBrowser]_vars

\* Calls of getCategoryIndex, one after the other, over two days.
InitCategory ==
  /\ job = [j \in Jobs |-> IdleJob]
  /\ activeScrapes = << >>
  /\ cancelledScrapes = {}
  /\ now = 0
  /\ config = [hasToken |-> TRUE, vision |-> "up"]
  /\ retry = IdleRetry
  /\ probe = IdleProbe
  /\ upload = IdleUpload
  /\ activeUploads = << >>
  /\ browser = IdleBrowser
  /\ category \in {[IdleCategory EXCEPT !.file = f] : f \in CacheFilesAtStart}

NextCategory ==
  \/ getCategoryIndex
  \/ StatSettles
  \/ \E readOk \in BOOLEAN : ReadSettles(readOk)
  \/ \E apiOk \in BOOLEAN : ApiSettles(apiOk)
  \/ \E outcome \in {"written", "failed", "partial"} : WriteSettles(outcome)
  \/ HalfDayPasses

SpecCategory == InitCategory /\ [][NextCategory]_vars

(***************************************************************************)
(* Properties                                                              *)
(***************************************************************************)
Succeeded(j) == job[j].pc = "done" /\ job[j].resp.status = 200
HasField(r, f) == f \in DOMAIN r

\* C1: a job that finds its cancellation flag set at a checkpoint (the check
\* after the fetch, or a group boundary of the image loop) returns a
\* response that carries cancelled = true, and after a group boundary the
\* count of the items collected from the completed groups.
C1_CancelStopsWithCancelledResponse ==
  [][\A j \in Jobs :
       (/\ isCancelled(activeScrapes, generateScrapeId(j))
        /\ job[j].pc \in {"page1", "pageN", "cooldown"}
        /\ job'[j].pc = "done"
        /\ job'[j].resp.status # 500 \/ job'[j].resp.error = "Scrape cancelled by user") =>
          /\ HasField(job'[j].resp, "cancelled")
          /\ job'[j].resp.cancelled = TRUE
          /\ job[j].pc = "cooldown" => job'[j].resp.filtered = Len(job[j].imageFiltered)]_vars

\* C2: a job that was in flight when cancel-all ran starts no further
\* image group.
C2_CancelAllStopsEveryJob ==
  [][\A j \in Jobs :
       job[j].cancelAllSeen => job'[j].groupsStarted = job[j].groupsStarted]_vars

\* C3: with 50,000 products upstream, page size 200 and maximum offset 6000
\* the job requests pages 1..30 only, and a job that retrieved them all
\* reports fetchedPages = 30, totalFound = 50,000 and 6000 fetched products.
C3_NeverBeyondMaxOffset ==
  \A j \in Jobs :
    job[j].catalog = "big" =>
      /\ \A k \in DOMAIN job[j].requested :
           job[j].requested[k] <= MaxFetchablePages(API_MAX_PAGE_SIZE)
      /\ (Succeeded(j) /\ \A k \in DOMAIN job[j].pageLog : job[j].pageLog[k].ok) =>
           /\ job[j].resp.pagesScraped = MaxFetchablePages(API_MAX_PAGE_SIZE)
           /\ job[j].resp.totalFound = BigTotal
           /\ Len(job[j].products) = MAX_OFFSET

\* C4: page n+1 is requested only if page n returned at least one item,
\* n is below the reported page count and page n+1 lies within the
\* maximum offset; and when all three hold the next page is requested.
C4_PaginationStops ==
  \A j \in Jobs :
    /\ \A k \in 2..Len(job[j].requested) :
         /\ k - 1 \in DOMAIN job[j].pageLog
         /\ job[j].pageLog[k - 1].n > 0
         /\ job[j].requested[k - 1] < job[j].totalPages
         /\ job[j].requested[k] <= MaxFetchablePages(sentPageSize(REQ_PAGE_SIZE))
    /\ (Succeeded(j) /\ job[j].pageLog # <<>>) =>
         LET last == job[j].pageLog[Len(job[j].pageLog)]
         IN \/ last.n = 0
            \/ last.page >= job[j].totalPages
            \/ last.page + 1 > MaxFetchablePages(sentPageSize(REQ_PAGE_SIZE))

\* C5: the pages a job requests are strictly increasing (so none is
\* requested twice) and at most one page request is in flight.
C5_PagesStrictlyIncreasing ==
  \A j \in Jobs :
    /\ \A a, b \in DOMAIN job[j].requested :
         a < b => job[j].requested[a] < job[j].requested[b]
    /\ job[j].inFlight <= 1
    /\ job[j].inFlight = 1 <=> job[j].pc \in {"page1", "pageN"}

C5_Witness ==
  \E j \in Jobs : Len(job[j].requested) >= 3 /\ job[j].inFlight = 1

C7_TimeoutIndicator ==
  [][\A j \in Jobs :
       (job[j].timedOutInGroup /\ job[j].pc # "done" /\ job'[j].pc = "done") =>
          /\ HasField(job'[j].resp, "timedOut")
          /\ job'[j].resp.timedOut = TRUE
          /\ job'[j].resp.products = job'[j].imageFiltered]_vars

\* every group of the job was processed
AllGroupsProcessed(j) == job[j].processed = Len(job[j].textFiltered)

\* C8 (as stated): with the classification backend unreachable for every
\* call, the final count of a job that processed all its groups equals its
\* text-filtered count.
C8_FailOpenAllPass ==
  \A j \in Jobs :
    (/\ config.vision = "down"
     /\ Succeeded(j)
     /\ job[j].useImageDetection
     /\ AllGroupsProcessed(j)) =>
       job[j].resp.filtered = job[j].resp.textFiltered

\* C8 (amended): with the classification backend unreachable for every
\* call, the products of the response are exactly the text-survivors with
\* an image of the groups that were processed, in order; survivors without
\* an image are rejected.
C8_FailOpenWithImage ==
  \A j \in Jobs :
    (/\ config.vision = "down"
     /\ Succeeded(j)
     /\ job[j].useImageDetection) =>
       job[j].resp.products =
         SelectSeq(SubSeq(job[j].textFiltered, 1, job[j].processed),
                   LAMBDA p : p.image)

C8_Witness ==
  \E j \in Jobs :
    /\ config.vision = "down"
    /\ Succeeded(j)
    /\ job[j].useImageDetection
    /\ AllGroupsProcessed(j)
    /\ job[j].groupsStarted = 2
    /\ job[j].resp.textFiltered = 3
    /\ job[j].resp.filtered = 2

\* C9: the registry holds sessions of running jobs only: a job that has
\* responded, whatever its outcome, has no session left.
C9_SessionRemovedOnResponse ==
  \A j \in Jobs :
    generateScrapeId(j) \in DOMAIN activeScrapes =>
      job[j].pc \notin {"idle", "done"}

C9_Witness ==
  \E j, k \in Jobs :
    /\ Succeeded(j)
    /\ job[k].pc = "done" /\ job[k].resp.status = 500
    /\ job[k].resp.error = "Scrape cancelled by user"
    /\ activeScrapes = << >>

\* C10: once isCancelled reads true for a job, it reads true until the job
\* ends.
C10_FlagOneWay ==
  [][\A j \in Jobs :
       (isCancelled(activeScrapes, generateScrapeId(j)) /\ job'[j].pc # "done") =>
         isCancelled(activeScrapes', generateScrapeId(j))]_vars

\* C11: cancel(jobId) never answers with an error; on a live job it leaves
\* the flag true (also when it was true before), and on an unknown or
\* finished job it leaves the registry as it was.
C11_CancelIdempotent ==
  [][\A id \in Jobs :
       Cancel(id) =>
         LET r == cancelResponse(activeScrapes, id)
         IN /\ r.status = 200
            /\ ~HasField(r, "error")
            /\ id \in DOMAIN activeScrapes =>
                 /\ r.success
                 /\ isCancelled(activeScrapes', id)
                 /\ DOMAIN activeScrapes' = DOMAIN activeScrapes
                 /\ \A k \in DOMAIN activeScrapes \ {id} :
                      activeScrapes'[k] = activeScrapes[k]
            /\ id \notin DOMAIN activeScrapes =>
                 /\ ~r.success
                 /\ activeScrapes' = activeScrapes]_vars

\* a cancelled live job that can be cancelled again, next to a finished job
\* whose cancel finds no session
C11_Witness ==
  \E j, k \in Jobs :
    /\ job[j].pc = "done"
    /\ generateScrapeId(j) \notin DOMAIN activeScrapes
    /\ cancelResponse(activeScrapes, generateScrapeId(j)) = [status |-> 200, success |-> FALSE]
    /\ isCancelled(activeScrapes, generateScrapeId(k))
    /\ generateScrapeId(k) \in cancelledScrapes
    /\ job[k].pc = "batch"

RECURSIVE ItemsOfPages(_, _)
\* the items of pages 1..n of catalog c, in page order
ItemsOfPages(c, n) ==
  IF n = 0 THEN <<>> ELSE ItemsOfPages(c, n - 1) \o CatalogPage(c, n)

\* C12: a failed page 1 fails the job with no result; after a failed page
\* >= 2 no further page is requested and the job goes on with exactly the
\* items of the pages before the failed one.
C12_PageFailureHandling ==
  \A j \in Jobs :
    /\ (job[j].pageLog # <<>> /\ ~job[j].pageLog[1].ok) =>
         /\ job[j].pc = "done"
         /\ job[j].resp.status = 500
         /\ ~HasField(job[j].resp, "products")
    /\ \A k \in DOMAIN job[j].pageLog :
         (k >= 2 /\ ~job[j].pageLog[k].ok) =>
           /\ Len(job[j].requested) = k
           /\ job[j].pc \notin {"pagewait", "pageN"}
           /\ job[j].products = ItemsOfPages(job[j].catalog, k - 1)
           /\ job[j].pc = "done" =>
                job[j].resp.status = 200 \/ job[j].resp.error = "Scrape cancelled by user"

\* the fetched items that pass the text filter, before the cap
textSurvivors(j) ==
  SelectSeq(job[j].products, LAMBDA p : isRelevantProduct(p.title, Keyword))

\* C13: at most MAX_PRODUCTS_TO_PROCESS items reach the image stage, the
\* text-survivors beyond the cap are not in the final result, and the
\* response of a capped job tells how many text-survivors were dropped.
C13_CapCountedInStatistics ==
  \A j \in Jobs :
    /\ job[j].processed <= MAX_PRODUCTS_TO_PROCESS
    /\ Succeeded(j) =>
         /\ \A k \in DOMAIN job[j].resp.products :
              \E m \in 1..Min(MAX_PRODUCTS_TO_PROCESS, Len(textSurvivors(j))) :
                job[j].resp.products[k] = textSurvivors(j)[m]
         /\ (job[j].useImageDetection /\
             Len(textSurvivors(j)) > MAX_PRODUCTS_TO_PROCESS) =>
              \/ /\ HasField(job[j].resp, "notEvaluated")
                 /\ job[j].resp.notEvaluated =
                      Len(textSurvivors(j)) - MAX_PRODUCTS_TO_PROCESS
              \/ job[j].resp.textFiltered = Len(textSurvivors(j))

\* C14: the pass rate of every job response is filtered / totalFound as a
\* percentage (to one decimal), and it is the number 0 when totalFound is
\* 0: never NaN, never infinite.
C14_PassRateGuarded ==
  \A j \in Jobs :
    Succeeded(j) =>
      /\ job[j].resp.passRate.kind = "number"
      /\ job[j].resp.totalFound = 0 => job[j].resp.passRate.tenths = 0
      /\ job[j].resp.totalFound > 0 =>
           /\ 2 * job[j].resp.totalFound * job[j].resp.passRate.tenths
                <= 2000 * job[j].resp.filtered + job[j].resp.totalFound
           /\ 2 * job[j].resp.totalFound * (job[j].resp.passRate.tenths + 1)
                > 2000 * job[j].resp.filtered + job[j].resp.totalFound

\* what happened, whatever fields the error carries
Transient(error) ==
  error.kind \in {"reset", "timeout", "refused", "ratelimit", "server"}

C16_NoRetryOnPermanentError ==
  \A k \in DOMAIN retry.log :
    (~retry.log[k].ok /\ ~Transient(retry.log[k].value)) =>
      /\ k = Len(retry.log)
      /\ retry.pc = "thrown"
      /\ retry.outcome = retry.log[k].value
      /\ Len(retry.delays) = k - 1

C16_Witness ==
  /\ retry.pc = "thrown"
  /\ retry.maxRetries = DEFAULT_MAX_RETRIES
  /\ Len(retry.log) = 2
  /\ retry.log[1].value.kind = "server"
  /\ retry.outcome.kind = "client"
  /\ retry.delays = <<1000>>

Whitespace == {" ", "\t"}

RECURSIVE TokensFrom(_, _, _)
\* the maximal runs of non-whitespace characters of s, from position i
TokensFrom(s, i, cur) ==
  IF i > Len(s) THEN (IF cur = <<>> THEN <<>> ELSE <<cur>>)
  ELSE IF s[i] \in Whitespace
       THEN (IF cur = <<>> THEN <<>> ELSE <<cur>>) \o TokensFrom(s, i + 1, <<>>)
       ELSE TokensFrom(s, i + 1, Append(cur, s[i]))

\* some whitespace-separated token of the keyword, longer than 2, is a
\* case-insensitive substring of the title
SomeTokenInTitle(title, keyword) ==
  LET tokens == TokensFrom(keyword, 1, <<>>)
  IN \E k \in DOMAIN tokens :
       /\ Len(tokens[k]) > 2
       /\ includes(toLowerCase(title), toLowerCase(tokens[k]))

\* C17: the relaxed text filter returns true exactly when some
\* whitespace-separated keyword token longer than 2 characters is a
\* case-insensitive substring of the title; for "sherpa blanket" the title
\* "Pet Cooling Mat" fails and "Sherpa Fleece Throw Blanket Queen" passes.
C17_RelaxedFilterTokens ==
  probe.pc = "done" =>
    /\ probe.result <=> SomeTokenInTitle(probe.title, probe.keyword)
    /\ (probe.keyword = SherpaBlanket /\ probe.title = PetCoolingMat) => ~probe.result
    /\ (probe.keyword = SherpaBlanket /\ probe.title = SherpaFleeceThrow) => probe.result

\* C18: a job started with useImageDetection = false starts no image group
\* (no classifier call) and returns exactly the fetched items that pass the
\* text filter, in fetched order.
C18_NoImageStageWhenDisabled ==
  \A j \in Jobs :
    ~job[j].useImageDetection =>
      /\ job[j].groupsStarted = 0
      /\ job[j].processed = 0
      /\ job[j].pc \notin {"batch", "cooldown"}
      /\ Succeeded(j) => job[j].resp.products = textSurvivors(j)

\* C19: every text-survivor carries a keyword token in its title, and the
\* items handed to the classifier, the items it passed and the items of a
\* job's final result are all text-survivors.
C19_ImagePassedImpliesTextPassed ==
  \A j \in Jobs :
    /\ \A k \in DOMAIN job[j].textFiltered :
         SomeTokenInTitle(job[j].textFiltered[k].title, Keyword)
    /\ job[j].pc = "batch" =>
         \A k \in DOMAIN job[j].batchResults :
           job[j].i + k \in DOMAIN job[j].textFiltered
    /\ \A k \in DOMAIN job[j].imageFiltered :
         \E m \in DOMAIN job[j].textFiltered :
           job[j].imageFiltered[k] = job[j].textFiltered[m]
    /\ Succeeded(j) =>
         \A k \in DOMAIN job[j].resp.products :
           \E m \in DOMAIN job[j].textFiltered :
             job[j].resp.products[k] = job[j].textFiltered[m]

\* a job over a catalog with an item the text filter rejects, whose image
\* stage passed some survivors and rejected others
C19_Witness ==
  \E j \in Jobs :
    /\ Succeeded(j)
    /\ job[j].useImageDetection
    /\ config.vision = "up"
    /\ \E k \in DOMAIN job[j].products :
         ~SomeTokenInTitle(job[j].products[k].title, Keyword)
    /\ job[j].groupsStarted = 2
    /\ job[j].resp.filtered = 1
    /\ job[j].resp.textFiltered = 3

\* C20: a request without searchTerm and searchUrl, or one that arrives when
\* no catalog token is configured, is answered at once with an error; no
\* session is registered, no upstream request leaves, and the job never
\* runs again.
C20_InvalidRequestRejected ==
  [][\A j \in Jobs :
       /\ \A req \in Requests(j) :
            (/\ ~req.hasTerm \/ ~config.hasToken
             /\ StartScrape(j, req.hasTerm, req.img, req.cat)) =>
               /\ job'[j].pc = "done"
               /\ job'[j].resp.status \in {400, 500}
               /\ HasField(job'[j].resp, "error")
               /\ activeScrapes' = activeScrapes
               /\ job'[j].requested = <<>>
               /\ job'[j].inFlight = 0
       /\ job[j].pc = "done" => job'[j] = job[j]]_vars

\* one request rejected for its missing search term and one for the
\* missing token, with nothing registered and nothing requested
C20_Witness ==
  \E j, k \in Jobs :
    /\ ~config.hasToken
    /\ job[j].pc = "done" /\ job[j].resp.status = 400
    /\ job[k].pc = "done" /\ job[k].resp.status = 500
    /\ job[k].resp.error = "CJ_API_TOKEN required"
    /\ job[j].requested = <<>> /\ job[k].requested = <<>>
    /\ activeScrapes = << >>

\* C21: the timeout runs from the registration of the job's session: once
\* more than SCRAPE_TIMEOUT_MS has passed since then, fetch time included,
\* the job starts no further image group.
C21_TimeoutFromJobStart ==
  [][\A j \in Jobs :
       (/\ generateScrapeId(j) \in DOMAIN activeScrapes
        /\ now - activeScrapes[generateScrapeId(j)].startedAt > SCRAPE_TIMEOUT_MS) =>
          job'[j].groupsStarted = job[j].groupsStarted]_vars

\* position of an item in a sequence of distinct items
PosIn(seq, x) == CHOOSE m \in DOMAIN seq : seq[m] = x

\* C22: the items the image stage has collected are a subsequence of its
\* input: they appear in input order, across groups and within a group,
\* whatever the order in which the classifier calls completed.
C22_ImageStageKeepsOrder ==
  \A j \in Jobs :
    LET out == IF Succeeded(j) THEN job[j].resp.products ELSE job[j].imageFiltered
    IN /\ \A k \in DOMAIN out :
            \E m \in DOMAIN job[j].textFiltered : out[k] = job[j].textFiltered[m]
       /\ \A a, b \in DOMAIN out :
            a < b => PosIn(job[j].textFiltered, out[a]) < PosIn(job[j].textFiltered, out[b])

\* the second call of the first group completed before the first one, and
\* the response holds the survivors of both groups in input order
C22_Witness ==
  /\ Succeeded(1)
  /\ job[1].outOfOrder = "yes"
  /\ job[1].groupsStarted = 2
  /\ job[1].resp.products = <<ItemA, ItemD, ItemE>>

\* the classifier calls of job j that have not settled
InFlightCalls(j) ==
  {k \in DOMAIN job[j].batchResults : job[j].batchResults[k] = "pending"}

\* C23: at most VISION_BATCH_SIZE classifier calls of a job are in flight,
\* all of them for items of the group being processed, and while one is in
\* flight no item of a later group has been started.
C23_ParallelismBounded ==
  \A j \in Jobs :
    /\ Cardinality(InFlightCalls(j)) <= VISION_BATCH_SIZE
    /\ Len(job[j].batchResults) <= VISION_BATCH_SIZE
    /\ InFlightCalls(j) # {} =>
         /\ job[j].pc = "batch"
         /\ job[j].groupsStarted = (job[j].i \div VISION_BATCH_SIZE) + 1
         /\ job[j].processed = job[j].i + Len(job[j].batchResults)
         /\ job[j].processed <= job[j].i + VISION_BATCH_SIZE
    /\ job[j].pc # "batch" => job[j].batchResults = <<>>

\* a full group in flight while a further text-survivor waits for its turn
C23_Witness ==
  /\ job[1].pc = "batch"
  /\ Cardinality(InFlightCalls(1)) = VISION_BATCH_SIZE
  /\ Len(job[1].textFiltered) > job[1].processed

\* C24: a cancel that has arrived while an image group is in flight does
\* not end the group: its calls settle one by one, the group is left only
\* when the last call settles, with its passers appended in input order,
\* and the job then stops at the next group boundary without starting a
\* group.
C24_CancelIsCooperative ==
  [][\A j \in Jobs :
       generateScrapeId(j) \in cancelledScrapes' =>
         /\ (job[j].pc = "batch" /\ job'[j].pc = "batch") =>
              \A k \in DOMAIN job[j].batchResults :
                job[j].batchResults[k] # "pending" =>
                  job'[j].batchResults[k] = job[j].batchResults[k]
         /\ (job[j].pc = "batch" /\ job'[j].pc # "batch") =>
              /\ job'[j].pc \in {"cooldown", "done"}
              /\ Cardinality(InFlightCalls(j)) = 1
              /\ \E res \in {"pass", "fail"} :
                   job'[j].imageFiltered = job[j].imageFiltered \o
                     SelectIdx(batchOf(job[j]),
                               [k \in 1..Len(batchOf(job[j])) |->
                                  (IF job[j].batchResults[k] = "pending" THEN res
                                   ELSE job[j].batchResults[k]) = "pass"], 1)
         /\ (job[j].pc = "cooldown" /\ isCancelled(activeScrapes, generateScrapeId(j))) =>
              /\ job'[j].pc \in {"cooldown", "done"}
              /\ job'[j].groupsStarted = job[j].groupsStarted
              /\ job'[j].pc = "done" => job'[j].resp.products = job[j].imageFiltered]_vars

\* the cancel arrived while the last group was in flight: the group ran to
\* its end and its passer is in the response
C24_Witness ==
  /\ Succeeded(1)
  /\ generateScrapeId(1) \in cancelledScrapes
  /\ ~job[1].cancelAllSeen
  /\ job[1].groupsStarted = 2
  /\ job[1].resp.products = <<ItemA, ItemD, ItemE>>

\* C25: the total page count is the reported total divided, rounding up,
\* by the page size the upstream reported on page 1, also when the
\* requested page size differs from it.
C25_PagesFromReportedPageSize ==
  probe.pc = "pagesDone" =>
    probe.result = CeilDiv(probe.total, probe.reported)

RECURSIVE ItemsOfLog(_, _, _)
\* the items of the pages log[1..n] that were retrieved, in log order
ItemsOfLog(c, log, n) ==
  IF n = 0 THEN <<>>
  ELSE ItemsOfLog(c, log, n - 1) \o
       (IF log[n].ok THEN CatalogPage(c, log[n].page) ELSE <<>>)

\* C26: the items a fetch has accumulated are the items of the retrieved
\* pages, page after page in increasing page number, each page in the
\* order the upstream returned it: nothing reordered, dropped or repeated.
C26_FetchKeepsOrder ==
  \A j \in Jobs :
    /\ job[j].products = ItemsOfLog(job[j].catalog, job[j].pageLog, Len(job[j].pageLog))
    /\ \A a, b \in DOMAIN job[j].pageLog :
         a < b => job[j].pageLog[a].page < job[j].pageLog[b].page

\* three pages retrieved, the second one empty
C26_Witness ==
  /\ Succeeded(1)
  /\ Len(job[1].pageLog) = 3
  /\ \A k \in 1..3 : job[1].pageLog[k].ok
  /\ job[1].products = <<ItemA, ItemB, ItemD>>

C28_StrictFilter ==
  probe.pc = "strictDone" /\ probe.result =>
    LET title == toLowerCase(probe.title)
        tokens == TokensFrom(toLowerCase(probe.keyword), 1, <<>>)
    IN /\ \A k \in DOMAIN tokens : Len(tokens[k]) > 2 => includes(title, tokens[k])
       /\ \A term \in invalidCategories :
            includes(title, term) =>
              \/ includes(title, term \o <<" ", "b", "l", "a", "n", "k", "e", "t">>)
              \/ includes(title, term \o <<" ", "t", "h", "r", "o", "w">>)

\* "Dog throw" passes for "dog throw" although "dog" is denylisted
C28_Witness ==
  /\ probe.pc = "strictDone"
  /\ probe.title = <<"D", "o", "g", " ", "t", "h", "r", "o", "w">>
  /\ probe.keyword = <<"d", "o", "g", " ", "t", "h", "r", "o", "w">>
  /\ probe.result

C30_FetchedPagesCountsRetrieved ==
  \A j \in Jobs :
    Succeeded(j) =>
      LET retrieved == {k \in DOMAIN job[j].pageLog : job[j].pageLog[k].ok}
      IN /\ fetchedPages(job[j]) = Cardinality(retrieved)
         /\ Cardinality(retrieved) < Len(job[j].pageLog) =>
              \/ HasField(job[j].resp, "incomplete")
              \/ HasField(job[j].resp, "partial")
              \/ HasField(job[j].resp, "failedPages")

\* C31: every title and keyword the strict text filter accepts is accepted
\* by the relaxed text filter too, also when no token of the keyword is
\* longer than 2 characters.
C31_RelaxedAtLeastAsPermissive ==
  probe.pc = "bothDone" => (probe.strict => probe.relaxed)

\* C32: cancel(jobId) changes the session of that job only: every other
\* session stays in the registry with its flag as it was, no other id is
\* handed to cancelScrape, and no other job is stopped or moved.
C32_CancelTouchesOneSession ==
  [][\A id \in Jobs :
       Cancel(id) =>
         \A k \in Jobs \ {id} :
           /\ (k \in DOMAIN activeScrapes') = (k \in DOMAIN activeScrapes)
           /\ k \in DOMAIN activeScrapes => activeScrapes'[k] = activeScrapes[k]
           /\ (k \in cancelledScrapes') = (k \in cancelledScrapes)
           /\ job'[k] = job[k]]_vars

\* two searches in their image stage, the first one cancelled and the second
\* one not
C32_Witness ==
  /\ job[1].pc = "batch" /\ job[2].pc = "batch"
  /\ isCancelled(activeScrapes, generateScrapeId(1))
  /\ generateScrapeId(2) \in DOMAIN activeScrapes
  /\ ~isCancelled(activeScrapes, generateScrapeId(2))
  /\ cancelledScrapes = {generateScrapeId(1)}

\* C33: an upload that was in flight when cancel-all ran stops at its next
\* batch boundary (the end of the pause after a batch, or of the wait
\* before a retry): it responds there and posts no further batch.
C33_CancelAllStopsUpload ==
  [][(/\ upload.cancelAllSeen
      /\ upload.pc \in {"pause", "retryWait"}
      /\ upload' # upload) =>
        upload'.pc = "done"]_vars

\* C34: an upload that has posted a batch responds in the end, whatever
\* the publishing service answers, HTTP 429 for every request included.
C34_UploadTerminates ==
  (upload.pc = "post") ~> (upload.pc = "done")

\* C35: the response of an upload that completed without cancellation holds
\* exactly one result per product, in product order, and its uploaded and
\* failed counts add up to total.
C35_EveryProductAccounted ==
  (upload.pc = "done" /\ upload.resp.status = 200 /\ ~upload.cancelAllSeen) =>
    /\ upload.resp.total = Len(upload.products)
    /\ Len(upload.resp.results) = Len(upload.products)
    /\ \A k \in DOMAIN upload.resp.results :
         upload.resp.results[k].title = upload.products[k]
    /\ upload.resp.uploaded + upload.resp.failed = upload.resp.total

\* C36: scrapeCJDropshipping requests the pages 1, 2, ..., n one after the
\* other with n at most 10, and the pagesScraped of its result is the
\* number of pages that returned at least one product.
C36_BrowserPagesConsecutive ==
  /\ Len(browser.requested) <= 10
  /\ \A k \in DOMAIN browser.requested : browser.requested[k] = k
  /\ (browser.pc = "done" /\ browser.resp.success =>
       browser.resp.pagesScraped = browser.nonEmpty)

\* the scrape stopped by the safety limit after ten pages with products
C36_Witness ==
  /\ browser.pc = "done"
  /\ browser.resp.success
  /\ browser.requested = <<1, 2, 3, 4, 5, 6, 7, 8, 9, 10>>
  /\ browser.resp.pagesScraped = 10

\* the cache file holds parseable data written less than 24 hours ago
CacheUsable ==
  /\ category.file.exists
  /\ category.file.content = "valid"
  /\ now - category.file.mtimeMs < 86400000

\* C37: getCategoryIndex calls the category API only when there is no
\* cache file younger than 24 hours that can be read and parsed; with such
\* a file it goes on without an API call and returns the cached data.
C37_ApiOnlyWithoutFreshCache ==
  [][
      /\ (category'.apiCalls > category.apiCalls) =>
            (~CacheUsable \/ category'.readError)
      /\ (/\ category.pc \in {"stat", "read"}
          /\ category' # category
          /\ CacheUsable
          /\ ~category'.readError)
         => (/\ category'.apiCalls = category.apiCalls
             /\ category'.pc \in {"read", "done"}
             /\ (category'.pc = "done" => category'.result = "cached"))
    ]_vars

\* the first call fetched the categories and wrote the cache, the second
\* one returned the cache without an API call
C37_Witness ==
  /\ category.pc = "done"
  /\ category.calls = 2
  /\ category.apiCalls = 1
  /\ category.result = "cached"
  /\ CacheUsable

====
